---- MODULE Spec2Model ----
(***************************************************************************)
(* A model of schemlib's tag core: the packed-array tags of nbt.py (bit    *)
(* width computation, virtual-width views, pack_list), the tag type        *)
(* registry, the Named root, the binary codec and the SNBT text notation.  *)
(*                                                                         *)
(* The core is a library of synchronous calls, so every specification      *)
(* here drives one group of calls: its Init draws the arguments from       *)
(* bounded sets and its actions apply the calls as the code computes them. *)
(* A Python exception is modelled as a result that carries the exception's *)
(* name, together with whatever the call had already mutated.              *)
(***************************************************************************)
EXTENDS Integers, Sequences, FiniteSets, TLC

VARIABLES
    calcArg,    \* the argument of the calcsize call: [isInt, vals]
    calcRes,    \* its outcome: NoResult before the call, then [err, size]
    arrW,       \* the backing width W of the array class in use (8, 32 or 64)
    store,      \* the BitArray objects: storage id -> sequence of W-bit words
    view,       \* the ArrayView handle last made by __call__: [sid, vw]
    lastOp,     \* the last __setitem__ call, its outcome and the storage before it
    nWrites,    \* the number of __setitem__ calls made so far
    packArg,    \* the arguments of the pack_list call: [W, values, width]
    packRes,    \* its outcome: PackPending before the call, then [err, width, st]
    tag_type_registry,  \* the registry dict: bound id -> tag kind
    tag_type_id,        \* each kind's class attribute tag_type_id (0: not set)
    regCall,    \* the last register_tag_type call, its outcome and the state before it
    nRegs,      \* the number of register_tag_type calls made after start-up
    namedArg,   \* the arguments of Named(...): [initialdata, kwargs]
    namedRes,   \* its outcome: NamedPending before the call, then [err, name, content]
    wireTag,    \* the tag whose to_bytes is called, or from which the stream was made
    wireMut,    \* the byte replaced in the stream before decoding: [at, byte, role, depth]
    wire,       \* the stream: WirePending before to_bytes, then [err, bytes]
    wireOut,    \* the outcome of from_bytes: DecodePending, then [err, tag, pos]
    snbtTag,    \* the tag handed to to_snbt
    snbtText,   \* the text: TextPending before to_snbt, then [err, text]
    snbtOut,    \* the outcome of from_snbt: ParsePending, then [err, tag, pos]
    eqLeft,     \* the array tag on the left of ==
    eqRight,    \* the array tag on the right of ==
    eqLib,      \* which Array.__eq__ the installed bitstring has
    eqRes,      \* the outcome of left == right: EqPending, then [err, truth]
    objTag,     \* the tag whose to_obj is called
    objRes,     \* the outcome of to_obj: ObjPending, then [err, obj]
    modelArg,   \* the arguments of model_to_compound: [instance, name]
    modelRes,   \* its outcome: ModelPending, then [err, tag]
    litArg,     \* a region handed to from_schematic: [palette, cells]
    BlockStates,    \* the LongArray from_schematic packs: LitPending, then [err, width, st]
    litBlocks   \* the outcome of get_block_matrix: ReadPending, then [err, bits, cells]

calcVars == <<calcArg, calcRes>>

arrVars == <<arrW, store, view, lastOp, nWrites>>

packVars == <<packArg, packRes>>

regVars == <<tag_type_registry, tag_type_id, regCall, nRegs>>

namedVars == <<namedArg, namedRes>>

wireVars == <<wireTag, wireMut, wire, wireOut>>

snbtVars == <<snbtTag, snbtText, snbtOut>>

eqVars == <<eqLeft, eqRight, eqLib, eqRes>>

objVars == <<objTag, objRes>>

modelVars == <<modelArg, modelRes>>

litVars == <<litArg, BlockStates, litBlocks>>

vars == <<calcVars, arrVars, packVars, regVars, namedVars, wireVars, snbtVars, eqVars, objVars,
          modelVars, litVars>>

NoResult == [err |-> "pending", size |-> 0]

(***************************************************************************)
(* Small helpers over integers and sequences.                              *)
(***************************************************************************)
Range(s) == {s[i] : i \in DOMAIN s}

Abs(x) == IF x < 0 THEN -x ELSE x

MaxOf(S) == CHOOSE x \in S : \A y \in S : y <= x

Pow2(n) == 2 ^ n

\* ceil(a / b) for a >= 0, b > 0
CeilDiv(a, b) == (a + b - 1) \div b

(***************************************************************************)
(* calcsize (nbt.py 179-186).                                              *)
(***************************************************************************)
\* the largest exponent the model's integers need
MaxBits == 12

\* ceil(log2(m)) for an integer m >= 1: the least k with 2^k >= m
CeilLog2(m) == CHOOSE k \in 0..MaxBits : Pow2(k) >= m /\ \A j \in 0..(k - 1) : Pow2(j) < m

\* calcsize(values): an int argument is wrapped into a one-element list; max()
\* of an empty list and log2(0) raise ValueError.
CalcSize(arg) ==
    LET values == arg.vals IN
    IF values = <<>> THEN [err |-> "ValueError", size |-> 0]
    ELSE LET m == MaxOf({Abs(values[i]) : i \in DOMAIN values}) IN
         IF m = 0 THEN [err |-> "ValueError", size |-> 0]
         ELSE LET size == IF CeilLog2(m) > 2 THEN CeilLog2(m) ELSE 2 IN
              [err |-> "none",
               size |-> IF \E i \in DOMAIN values : values[i] < 0 THEN size + 1 ELSE size]

SeqsUpTo(S, n) == UNION {[1..k -> S] : k \in 0..n}

(***************************************************************************)
(* Packed arrays (nbt.py 166-358).  A Python int >= 0 is modelled as the   *)
(* set of the positions of its one bits, which keeps 64-bit words and the  *)
(* wider intermediate values of the shifts exact.  A BitArray that backs   *)
(* an array of width W is the sequence of its W-bit words: word k (from 0) *)
(* is the element arr[k] of Array(width) over the storage.                 *)
(***************************************************************************)
BitsOf(n) == {b \in 0..MaxBits : (n \div Pow2(b)) % 2 = 1}

Shl(x, k) == {b + k : b \in x}

Shr(x, k) == {b - k : b \in {c \in x : c >= k}}

\* (1 << n) - 1
Ones(n) == 0..(n - 1)

\* the constant 64 of __setitem__'s second half
SetItemEndBase == 64

\* the storage ids and handles
BaseSid == 1

NoView == [sid |-> 0, vw |-> 0]

\* the array itself: a handle with no virtual width
Base == [sid |-> BaseSid, vw |-> 0]

NoOp == [op |-> "none", vw |-> 0, idx |-> 0, value |-> {}, err |-> "none", before |-> <<>>]

\* word k (from 0) of a storage
Word(st, k) == st[k + 1]

InRange(st, k) == k >= 0 /\ k < Len(st)

\* __getitem__ with virtual_width None (nbt.py 260-261)
NativeGetItem(st, k) ==
    IF InRange(st, k) THEN [err |-> "none", val |-> Word(st, k)]
    ELSE [err |-> "IndexError", val |-> {}]

\* __getitem__ through a view of width V over backing width W (nbt.py 271-285)
GetItem(st, W, V, idx) ==
    LET start_offset == idx * V
        start_arr_index == start_offset \div W
        end_arr_index == ((idx + 1) * V - 1) \div W
        start_bit_offset == start_offset % W
    IN  IF ~InRange(st, start_arr_index) \/ ~InRange(st, end_arr_index)
        THEN [err |-> "IndexError", val |-> {}]
        ELSE IF start_arr_index = end_arr_index
        THEN [err |-> "none",
              val |-> Shr(Word(st, start_arr_index), start_bit_offset) \cap Ones(V)]
        ELSE LET end_offset == W - start_bit_offset IN
             [err |-> "none",
              val |-> (Shr(Word(st, start_arr_index), start_bit_offset)
                       \cup Shl(Word(st, end_arr_index), end_offset)) \cap Ones(V)]

\* __setitem__ with virtual_width None (nbt.py 288-291): width.build(value)
\* refuses a value that does not fit W bits, overwrite refuses a position
\* past the end.
NativeSetItem(st, W, k, value) ==
    IF ~(value \subseteq Ones(W)) THEN [err |-> "CreationError", st |-> st]
    ELSE IF ~InRange(st, k) THEN [err |-> "ValueError", st |-> st]
    ELSE [err |-> "none", st |-> [st EXCEPT ![k + 1] = value]]

\* __setitem__ through a view of width V over backing width W (nbt.py 301-320):
\* the start word is rewritten first; the second half then shifts by
\* j1 = V - (64 - start_bit_offset), and a negative shift count raises
\* ValueError with the start word already written.
SetItem(st, W, V, idx, value) ==
    LET start_offset == idx * V
        start_arr_index == start_offset \div W
        end_arr_index == ((idx + 1) * V - 1) \div W
        start_bit_offset == start_offset % W
        m == Ones(W)
        mask == Ones(V)
    IN  IF ~InRange(st, start_arr_index) THEN [err |-> "IndexError", st |-> st]
        ELSE
        LET zeroed == Word(st, start_arr_index) \ Shl(mask, start_bit_offset)
            updated == zeroed \cup Shl(value \cap mask, start_bit_offset)
            st1 == [st EXCEPT ![start_arr_index + 1] = updated \cap m]
        IN  IF start_arr_index = end_arr_index THEN [err |-> "none", st |-> st1]
            ELSE
            LET end_offset == SetItemEndBase - start_bit_offset
                j1 == V - end_offset
            IN  IF ~InRange(st1, end_arr_index) THEN [err |-> "IndexError", st |-> st1]
                ELSE IF j1 < 0 THEN [err |-> "ValueError", st |-> st1]
                ELSE [err |-> "none",
                      st |-> [st1 EXCEPT ![end_arr_index + 1] =
                                (Shl(Shr(Word(st1, end_arr_index), j1), j1)
                                 \cup Shr(value \cap mask, end_offset)) \cap m]]

\* a __call__ that builds the view over a copy of the storage
CallViewCopies(h, V, heap) ==
    [handle |-> [sid |-> Len(heap) + 1, vw |-> V], heap |-> Append(heap, heap[h.sid])]

\* __call__ (nbt.py 328-345) with __init__ (171-177): the ArrayView is built
\* over the BitArray object of the array it is called on.
CallView(h, V, heap) == [handle |-> [sid |-> h.sid, vw |-> V], heap |-> heap]

BackingWidths == {8, 32, 64}

(***************************************************************************)
(* pack_list (nbt.py 198-213).                                             *)
(***************************************************************************)
\* the writes of pack_list's loop from list position i on; a write that
\* raises ends the call
RECURSIVE PackWrites(_, _, _, _, _)
PackWrites(st, W, V, values, i) ==
    IF i > Len(values) THEN [err |-> "none", st |-> st]
    ELSE LET r == SetItem(st, W, V, i - 1, BitsOf(values[i])) IN
         IF r.err # "none" THEN r ELSE PackWrites(r.st, W, V, values, i + 1)

\* the width pack_list takes when none is given (nbt.py 204-205); 0 stands
\* for the ValueError of max() of an empty list or of log2 of a value <= 0
PackWidth(values) ==
    IF values = <<>> THEN 0
    ELSE LET mx == MaxOf(Range(values)) IN
         IF mx <= 0 THEN 0
         ELSE IF CeilLog2(mx) > 2 THEN CeilLog2(mx) ELSE 2

\* pack_list(values, width) on the array class of backing width W; the
\* width None is written 0
PackList(W, values, width) ==
    LET w == IF width = 0 THEN PackWidth(values) ELSE width IN
    IF w = 0 THEN [err |-> "ValueError", width |-> 0, st |-> <<>>]
    ELSE LET length == CeilDiv(Len(values) * w, W)
             obj == <<[k \in 1..length |-> {}]>>
             c == CallView(Base, w, obj)
             r == PackWrites(c.heap[c.handle.sid], W, w, values, 1)
             heap == [c.heap EXCEPT ![c.handle.sid] = r.st]
         IN  [err |-> r.err, width |-> w, st |-> heap[BaseSid]]

(***************************************************************************)
(* The tag type registry (nbt.py 36-64) and its start-up contents, the     *)
(* twelve @register_tag_type decorators of nbt.py.                         *)
(***************************************************************************)
BuiltinKinds ==
    <<"Byte", "Short", "Int", "Long", "Float", "Double", "ByteArray", "String",
      "List", "Compound", "IntArray", "LongArray">>

\* the ids the decorators give, in the order of BuiltinKinds
BuiltinIds == <<1, 2, 3, 4, 5, 6, 7, 8, 9, 10, 11, 12>>

\* the order in which nbt.py runs the decorators (positions in BuiltinKinds)
DecoratorOrder == <<1, 2, 3, 4, 5, 6, 7, 11, 12, 8, 9, 10>>

\* a subclass of NbtTag defined by a caller, and two things that are no tag
\* type: the class set and an instance
TagKinds == Range(BuiltinKinds) \cup {"Custom"}

NotTagTypes == {"set", "instance"}

\* register_tag_type(tag_type_id, tag_type, overwrite=...) on the registry
\* reg and the class attributes ids: issubclass comes first, then the
\* duplicate check, then the two assignments.
RegisterNoDuplicateCheck(reg, ids, id, kind, overwrite) ==
    IF kind \notin TagKinds THEN [err |-> "TypeError", reg |-> reg, ids |-> ids]
    ELSE [err |-> "none",
          reg |-> [i \in DOMAIN reg \cup {id} |-> IF i = id THEN kind ELSE reg[i]],
          ids |-> [ids EXCEPT ![kind] = id]]

RegisterTagType(reg, ids, id, kind, overwrite) ==
    IF kind \notin TagKinds THEN [err |-> "TypeError", reg |-> reg, ids |-> ids]
    ELSE IF id \in DOMAIN reg /\ ~overwrite THEN [err |-> "KeyError", reg |-> reg, ids |-> ids]
    ELSE [err |-> "none",
          reg |-> [i \in DOMAIN reg \cup {id} |-> IF i = id THEN kind ELSE reg[i]],
          ids |-> [ids EXCEPT ![kind] = id]]

EmptyRegistry == [i \in {} |-> "none"]

NoIds == [k \in TagKinds |-> 0]

\* the module body of nbt.py: the decorators run in source order
RECURSIVE ImportNbt(_, _, _)
ImportNbt(reg, ids, n) ==
    IF n > Len(DecoratorOrder) THEN [reg |-> reg, ids |-> ids]
    ELSE LET k == DecoratorOrder[n]
             r == RegisterTagType(reg, ids, BuiltinIds[k], BuiltinKinds[k], FALSE)
         IN  ImportNbt(r.reg, r.ids, n + 1)

(***************************************************************************)
(* Dicts keep insertion order: a dict is a sequence of <<key, value>>      *)
(* pairs with distinct keys.  A string is the sequence of its code points. *)
(***************************************************************************)
DictKeys(d) == {d[i][1] : i \in DOMAIN d}

DictGet(d, k) == d[CHOOSE i \in DOMAIN d : d[i][1] = k][2]

\* a dict that keeps its keys sorted by length, a new key going before the
\* keys that are not shorter
DictSetSorted(d, k, v) ==
    IF k \in DictKeys(d) THEN [i \in DOMAIN d |-> IF d[i][1] = k THEN <<k, v>> ELSE d[i]]
    ELSE LET n == Cardinality({i \in DOMAIN d : Len(d[i][1]) < Len(k)})
         IN  SubSeq(d, 1, n) \o <<<<k, v>>>> \o SubSeq(d, n + 1, Len(d))

\* d[k] = v
DictSet(d, k, v) ==
    IF k \in DictKeys(d) THEN [i \in DOMAIN d |-> IF d[i][1] = k THEN <<k, v>> ELSE d[i]]
    ELSE Append(d, <<k, v>>)

\* d.update(e)
RECURSIVE DictUpdate(_, _)
DictUpdate(d, e) ==
    IF e = <<>> THEN d ELSE DictUpdate(DictSet(d, e[1][1], e[1][2]), Tail(e))

IsDict(d) ==
    /\ \A i \in DOMAIN d : Len(d[i]) = 2
    /\ \A i, j \in DOMAIN d : d[i][1] = d[j][1] => i = j

(***************************************************************************)
(* Tags are records [kind, <value>]; the value field is named after its    *)
(* shape: int for the integer kinds, str (a sequence of code points) for   *)
(* String, items (a sequence of tags) for List and entries (a dict of      *)
(* tags) for Compound.                                                     *)
(***************************************************************************)
IntTag(kind, n) == [kind |-> kind, int |-> n]

StringTag(s) == [kind |-> "String", str |-> s]

ListTag(items) == [kind |-> "List", items |-> items]

CompoundTag(entries) == [kind |-> "Compound", entries |-> entries]

\* "foo", "bar" and the empty string as code points
StrFoo == <<102, 111, 111>>

StrBar == <<98, 97, 114>>

(***************************************************************************)
(* The Named root (nbt.py 449-475).                                        *)
(***************************************************************************)
\* Named(initialdata, **kwargs): the kwargs are merged in, more than one key
\* raises ValueError, the one-target unpacking of no key raises ValueError
\* too, and dict(value) raises TypeError for a value that is no mapping.
NamedInitTakesFirstKey(initialdata, kwargs) ==
    LET data == DictUpdate(initialdata, kwargs) IN
    IF Len(data) = 0 THEN [err |-> "ValueError", name |-> <<>>, content |-> <<>>]
    ELSE IF data[1][2].kind # "Compound"
         THEN [err |-> "TypeError", name |-> <<>>, content |-> <<>>]
         ELSE [err |-> "none", name |-> data[1][1], content |-> data[1][2].entries]

NamedInit(initialdata, kwargs) ==
    LET data == DictUpdate(initialdata, kwargs) IN
    IF Len(data) > 1 THEN [err |-> "ValueError", name |-> <<>>, content |-> <<>>]
    ELSE IF Len(data) # 1 THEN [err |-> "ValueError", name |-> <<>>, content |-> <<>>]
    ELSE LET name == data[1][1] IN
         IF DictGet(data, name).kind # "Compound"
         THEN [err |-> "TypeError", name |-> <<>>, content |-> <<>>]
         ELSE [err |-> "none", name |-> name, content |-> DictGet(data, name).entries]

(***************************************************************************)
(* Python floats are IEEE-754 doubles: [s, e, hi, lo] is the sign, the     *)
(* biased 11-bit exponent, the top 23 bits of the fraction and its low 29  *)
(* bits.  floatbe64 writes the double as it is; floatbe32 rounds it to the *)
(* nearest single (ties to even) as struct.pack(">f") does.                *)
(***************************************************************************)
Dbl(s, e, hi, lo) == [s |-> s, e |-> e, hi |-> hi, lo |-> lo]

HalfLo == 2 ^ 28

IsNaN(d) == d.e = 2047 /\ (d.hi # 0 \/ d.lo # 0)

IsZero(d) == d.e = 0 /\ d.hi = 0 /\ d.lo = 0

\* float.__eq__
FloatEq(a, b) == ~IsNaN(a) /\ ~IsNaN(b) /\ (a = b \/ (IsZero(a) /\ IsZero(b)))

HighBit(n) == CHOOSE k \in 0..30 : 2 ^ k <= n /\ (k = 30 \/ n < 2 ^ (k + 1))

\* float(n) for an integer of the model (exact below 2^53)
FloatOfInt(n) ==
    IF n = 0 THEN Dbl(0, 0, 0, 0)
    ELSE IF n = -2147483647 - 1 THEN Dbl(1, 1054, 0, 0)
    ELSE LET m == Abs(n)
             k == HighBit(m)
             frac == m - 2 ^ k
         IN  IF k <= 23 THEN Dbl(IF n < 0 THEN 1 ELSE 0, 1023 + k, frac * 2 ^ (23 - k), 0)
             ELSE Dbl(IF n < 0 THEN 1 ELSE 0, 1023 + k,
                      frac \div 2 ^ (k - 23), (frac % 2 ^ (k - 23)) * 2 ^ (52 - k))

\* the single [s, e, m] nearest to the double d; e = 255 with m = 0 after
\* rounding a finite double is struct's OverflowError
Single(s, e, m) == [s |-> s, e |-> e, m |-> m]

NarrowNormal(d) ==
    LET up == d.lo > HalfLo \/ (d.lo = HalfLo /\ d.hi % 2 = 1)
        m == IF up THEN d.hi + 1 ELSE d.hi
        e == d.e - 896
    IN  IF m = 2 ^ 23 THEN Single(d.s, e + 1, 0) ELSE Single(d.s, e, m)

NarrowSubnormal(d) ==
    LET shift == 897 - d.e
        full == 2 ^ 23 + d.hi
    IN  IF shift > 25 THEN Single(d.s, 0, 0)
        ELSE LET q == full \div 2 ^ shift
                 rem == full % 2 ^ shift
                 half == 2 ^ (shift - 1)
                 up == rem > half \/ (rem = half /\ (d.lo > 0 \/ q % 2 = 1))
                 m == IF up THEN q + 1 ELSE q
             IN  IF m = 2 ^ 23 THEN Single(d.s, 1, 0) ELSE Single(d.s, 0, m)

Narrow(d) ==
    IF d.e = 2047 THEN Single(d.s, 255, IF IsNaN(d) THEN (d.hi % 2 ^ 22) + 2 ^ 22 ELSE 0)
    ELSE IF d.e = 0 THEN Single(d.s, 0, 0)
    ELSE IF d.e <= 896 THEN NarrowSubnormal(d)
    ELSE NarrowNormal(d)

\* the double that a single read with floatbe32 becomes
Widen(f) ==
    IF f.e = 255 THEN Dbl(f.s, 2047, f.m, 0)
    ELSE IF f.e = 0 THEN
        IF f.m = 0 THEN Dbl(f.s, 0, 0, 0)
        ELSE LET k == HighBit(f.m) IN Dbl(f.s, 874 + k, (f.m - 2 ^ k) * 2 ^ (23 - k), 0)
    ELSE Dbl(f.s, f.e + 896, f.m, 0)

SingleToBytes(f) ==
    <<f.s * 128 + (f.e \div 2), (f.e % 2) * 128 + (f.m \div 65536), (f.m \div 256) % 256, f.m % 256>>

SingleOfBytes(bs) ==
    Single(bs[1] \div 128, (bs[1] % 128) * 2 + (bs[2] \div 128),
           (bs[2] % 128) * 65536 + bs[3] * 256 + bs[4])

DoubleToBytes(d) ==
    <<d.s * 128 + (d.e \div 16), (d.e % 16) * 16 + (d.hi \div 524288),
      (d.hi \div 2048) % 256, (d.hi \div 8) % 256,
      (d.hi % 8) * 32 + (d.lo \div 16777216), (d.lo \div 65536) % 256,
      (d.lo \div 256) % 256, d.lo % 256>>

DoubleOfBytes(bs) ==
    Dbl(bs[1] \div 128, (bs[1] % 128) * 16 + (bs[2] \div 16),
        (bs[2] % 16) * 524288 + bs[3] * 2048 + bs[4] * 8 + (bs[5] \div 32),
        (bs[5] % 32) * 16777216 + bs[6] * 65536 + bs[7] * 256 + bs[8])

\* Dtype("floatbe32").build(v).tobytes() and Dtype("floatbe64").build(v).tobytes()
FloatToBytes(kind, d) ==
    IF kind = "Double" THEN [err |-> "none", bytes |-> DoubleToBytes(d)]
    ELSE LET f == Narrow(d) IN
         IF f.e = 255 /\ d.e # 2047 THEN [err |-> "OverflowError", bytes |-> <<>>]
         ELSE [err |-> "none", bytes |-> SingleToBytes(f)]

(***************************************************************************)
(* The binary codec (nbt.py 94-163, 192-196, 233-248, 361-469).  A byte    *)
(* string is a sequence of integers 0..255; a BitStream is a byte string   *)
(* and a position in it (the bytes consumed so far).  Every decoder        *)
(* returns [err, tag, pos]; every encoder returns [err, bytes].            *)
(***************************************************************************)
IntKinds == {"Byte", "Short", "Int", "Long"}

FloatKinds == {"Float", "Double"}

ArrayKinds == {"ByteArray", "IntArray", "LongArray"}

\* the bytes of the fmt of each _DataTag and of the width of each array kind
FmtBytes(kind) ==
    CASE kind = "Byte" -> 1
      [] kind = "Short" -> 2
      [] kind = "Int" -> 4
      [] kind = "Long" -> 8
      [] kind = "Float" -> 4
      [] kind = "Double" -> 8
      [] kind = "ByteArray" -> 1
      [] kind = "IntArray" -> 4
      [] kind = "LongArray" -> 8

\* a Float or Double holds a Python float, an array the bytes of its
\* storage, and an integer wider than the model's integers its
\* two's-complement bytes
FloatTag(kind, d) == [kind |-> kind, ieee |-> d]

ArrayTag(kind, storage) == [kind |-> kind, storage |-> storage]

BigTag(kind, bytes) == [kind |-> kind, big |-> bytes]

NoTag == [kind |-> "none"]

SubSeqFrom(b, pos, n) == [i \in 1..n |-> b[pos + i]]

\* Dtype("intbe<8n>").build(v).tobytes(): the n big-endian two's-complement
\* bytes of v; the bytes above the fourth are the sign extension
IntByte(v, k) == IF k >= 4 THEN (IF v < 0 THEN 255 ELSE 0) ELSE (v \div (256 ^ k)) % 256

IntFits(v, n) == n >= 4 \/ (v >= -(2 ^ (8 * n - 1)) /\ v < 2 ^ (8 * n - 1))

\* the same without the range check of the setter: the low n bytes of v
IntToBytesTruncates(v, n) == [err |-> "none", bytes |-> [i \in 1..n |-> IntByte(v, n - i)]]

IntToBytes(v, n) ==
    IF IntFits(v, n) THEN [err |-> "none", bytes |-> [i \in 1..n |-> IntByte(v, n - i)]]
    ELSE [err |-> "CreationError", bytes |-> <<>>]

\* the same for an integer held as two's-complement bytes bs (any number of
\* them): it fits n bytes when the bytes above the last n only extend the sign
BigFits(bs, n) ==
    \/ Len(bs) <= n
    \/ LET k == Len(bs) - n IN
       \/ bs[k + 1] < 128 /\ \A i \in 1..k : bs[i] = 0
       \/ bs[k + 1] >= 128 /\ \A i \in 1..k : bs[i] = 255

BigToBytes(bs, n) ==
    IF ~BigFits(bs, n) THEN [err |-> "CreationError", bytes |-> <<>>]
    ELSE IF Len(bs) >= n THEN [err |-> "none", bytes |-> SubSeqFrom(bs, Len(bs) - n, n)]
    ELSE [err |-> "none",
          bytes |-> [i \in 1..(n - Len(bs)) |-> IF bs[1] >= 128 THEN 255 ELSE 0] \o bs]

\* the shortest two's-complement bytes of the same integer
RECURSIVE BigNorm(_)
BigNorm(bs) ==
    IF Len(bs) > 1 /\ ((bs[1] = 0 /\ bs[2] < 128) \/ (bs[1] = 255 /\ bs[2] >= 128))
    THEN BigNorm(Tail(bs))
    ELSE bs

\* Bits(uintbe<8n>=v): an unsigned prefix
UIntToBytes(v, n) ==
    IF v >= 0 /\ (n >= 4 \/ v < 2 ^ (8 * n))
    THEN [err |-> "none", bytes |-> [i \in 1..n |-> IntByte(v, n - i)]]
    ELSE [err |-> "CreationError", bytes |-> <<>>]

\* buff.read("intbe<8n>") for n <= 4, and buff.read("uintbe16")
SignedBE(bs) ==
    LET n == Len(bs)
        top == IF bs[1] >= 128 THEN bs[1] - 256 ELSE bs[1]
    IN  CASE n = 1 -> top
          [] n = 2 -> top * 256 + bs[2]
          [] n = 4 -> top * 16777216 + bs[2] * 65536 + bs[3] * 256 + bs[4]

UnsignedBE2(bs) == bs[1] * 256 + bs[2]

\* the eight bytes of an intbe64 as the model's integer where it fits
LongOfBytes(bs) ==
    LET hi == SubSeqFrom(bs, 0, 4)
        lo == SubSeqFrom(bs, 4, 4)
    IN  IF (hi = <<0, 0, 0, 0>> /\ lo[1] < 128) \/ (hi = <<255, 255, 255, 255>> /\ lo[1] >= 128)
        THEN IntTag("Long", SignedBE(lo))
        ELSE BigTag("Long", bs)

\* str.encode("utf8") of one code point (no surrogates)
Utf8OfCodePoint(c) ==
    IF c < 128 THEN <<c>>
    ELSE IF c < 2048 THEN <<192 + (c \div 64), 128 + (c % 64)>>
    ELSE IF c < 65536 THEN <<224 + (c \div 4096), 128 + ((c \div 64) % 64), 128 + (c % 64)>>
    ELSE <<240 + (c \div 262144), 128 + ((c \div 4096) % 64), 128 + ((c \div 64) % 64), 128 + (c % 64)>>

RECURSIVE Utf8Encode(_)
Utf8Encode(str) ==
    IF str = <<>> THEN <<>> ELSE Utf8OfCodePoint(Head(str)) \o Utf8Encode(Tail(str))

IsCont(bs, i) == i <= Len(bs) /\ bs[i] >= 128 /\ bs[i] <= 191

\* bytes.decode("utf8"): strict, [err, str]
RECURSIVE Utf8Decode(_, _, _)
Utf8Decode(bs, i, acc) ==
    IF i > Len(bs) THEN [err |-> "none", str |-> acc]
    ELSE LET b0 == bs[i]
             bad == [err |-> "UnicodeDecodeError", str |-> <<>>]
         IN
         IF b0 < 128 THEN Utf8Decode(bs, i + 1, Append(acc, b0))
         ELSE IF b0 >= 194 /\ b0 <= 223 THEN
             IF IsCont(bs, i + 1)
             THEN Utf8Decode(bs, i + 2, Append(acc, (b0 - 192) * 64 + (bs[i + 1] - 128)))
             ELSE bad
         ELSE IF b0 >= 224 /\ b0 <= 239 THEN
             IF /\ IsCont(bs, i + 1) /\ IsCont(bs, i + 2)
                /\ (b0 = 224 => bs[i + 1] >= 160)
                /\ (b0 = 237 => bs[i + 1] <= 159)
             THEN Utf8Decode(bs, i + 3,
                     Append(acc, (b0 - 224) * 4096 + (bs[i + 1] - 128) * 64 + (bs[i + 2] - 128)))
             ELSE bad
         ELSE IF b0 >= 240 /\ b0 <= 244 THEN
             IF /\ IsCont(bs, i + 1) /\ IsCont(bs, i + 2) /\ IsCont(bs, i + 3)
                /\ (b0 = 240 => bs[i + 1] >= 144)
                /\ (b0 = 244 => bs[i + 1] <= 143)
             THEN Utf8Decode(bs, i + 4,
                     Append(acc, (b0 - 240) * 262144 + (bs[i + 1] - 128) * 4096
                                 + (bs[i + 2] - 128) * 64 + (bs[i + 3] - 128)))
             ELSE bad
         ELSE bad

\* String.to_bytes (nbt.py 369-373): the prefix is len(self), the number of
\* code points, followed by the UTF-8 bytes
StringToBytes(str) ==
    LET prefix == UIntToBytes(Len(str), 2) IN
    IF prefix.err # "none" THEN prefix
    ELSE [err |-> "none", bytes |-> prefix.bytes \o Utf8Encode(str)]

Failed(e, pos) == [err |-> e, tag |-> NoTag, pos |-> pos]

\* String.from_buff (nbt.py 363-367)
StringFromBuff(b, pos) ==
    IF pos + 2 > Len(b) THEN Failed("ReadError", pos)
    ELSE LET string_length == UnsignedBE2(SubSeqFrom(b, pos, 2)) IN
         IF pos + 2 + string_length > Len(b) THEN Failed("ReadError", pos + 2)
         ELSE LET d == Utf8Decode(SubSeqFrom(b, pos + 2, string_length), 1, <<>>) IN
              IF d.err # "none" THEN Failed(d.err, pos + 2 + string_length)
              ELSE [err |-> "none", tag |-> StringTag(d.str), pos |-> pos + 2 + string_length]

\* _DataTag.from_buff (nbt.py 131-134)
DataTagFromBuff(kind, b, pos) ==
    LET n == FmtBytes(kind) IN
    IF pos + n > Len(b) THEN Failed("ReadError", pos)
    ELSE LET bs == SubSeqFrom(b, pos, n) IN
         [err |-> "none",
          tag |-> IF kind = "Float" THEN FloatTag(kind, Widen(SingleOfBytes(bs)))
                  ELSE IF kind = "Double" THEN FloatTag(kind, DoubleOfBytes(bs))
                  ELSE IF kind = "Long" THEN LongOfBytes(bs)
                  ELSE IntTag(kind, SignedBE(bs)),
          pos |-> pos + n]

\* _ArrayTag.from_buff (nbt.py 192-196): a uintbe32 count of elements, then
\* count * width bits; a count of 2^31 or more cannot be read from the
\* model's byte strings
ArrayFromBuff(kind, b, pos) ==
    IF pos + 4 > Len(b) THEN Failed("ReadError", pos)
    ELSE LET lb == SubSeqFrom(b, pos, 4) IN
         IF lb[1] >= 128 THEN Failed("ReadError", pos + 4)
         ELSE LET length == SignedBE(lb) IN
              IF pos + 4 + length * FmtBytes(kind) > Len(b) THEN Failed("ReadError", pos + 4)
              ELSE [err |-> "none",
                    tag |-> ArrayTag(kind, SubSeqFrom(b, pos + 4, length * FmtBytes(kind))),
                    pos |-> pos + 4 + length * FmtBytes(kind)]

RECURSIVE FromBuff(_, _, _, _)
RECURSIVE ListItemsFromBuff(_, _, _, _, _, _)
RECURSIVE CompoundEntriesFromBuff(_, _, _, _)

\* the comprehension of List.from_buff (nbt.py 391): n more items of one kind
ListItemsFromBuff(kind, b, pos, reg, n, items) ==
    IF n <= 0 THEN [err |-> "none", tag |-> ListTag(items), pos |-> pos]
    ELSE LET r == FromBuff(kind, b, pos, reg) IN
         IF r.err # "none" THEN Failed(r.err, r.pos)
         ELSE ListItemsFromBuff(kind, b, r.pos, reg, n - 1, Append(items, r.tag))

\* List.from_buff that takes an unknown element kind for the empty kind
ListFromBuffSkipsUnknown(b, pos, reg) ==
    IF pos + 5 > Len(b) THEN Failed("ReadError", pos)
    ELSE LET item_tag_type_id == SignedBE(SubSeqFrom(b, pos, 1))
             list_length == SignedBE(SubSeqFrom(b, pos + 1, 4))
         IN  IF item_tag_type_id \notin DOMAIN reg
             THEN [err |-> "none", tag |-> ListTag(<<>>), pos |-> pos + 5]
             ELSE ListItemsFromBuff(reg[item_tag_type_id], b, pos + 5, reg, list_length, <<>>)

\* List.from_buff without the branch of the empty kind: 0 is looked up in
\* the registry like every other id
ListFromBuffRefusesEmptyKind(b, pos, reg) ==
    IF pos + 5 > Len(b) THEN Failed("ReadError", pos)
    ELSE LET item_tag_type_id == SignedBE(SubSeqFrom(b, pos, 1))
             list_length == SignedBE(SubSeqFrom(b, pos + 1, 4))
         IN  IF item_tag_type_id \notin DOMAIN reg THEN Failed("ValueError", pos + 5)
             ELSE ListItemsFromBuff(reg[item_tag_type_id], b, pos + 5, reg, list_length, <<>>)

\* List.from_buff (nbt.py 381-391)
ListFromBuff(b, pos, reg) ==
    IF pos + 5 > Len(b) THEN Failed("ReadError", pos)
    ELSE LET item_tag_type_id == SignedBE(SubSeqFrom(b, pos, 1))
             list_length == SignedBE(SubSeqFrom(b, pos + 1, 4))
         IN  IF item_tag_type_id = 0
             THEN [err |-> "none", tag |-> ListTag(<<>>), pos |-> pos + 5]
             ELSE IF item_tag_type_id \notin DOMAIN reg THEN Failed("ValueError", pos + 5)
             ELSE ListItemsFromBuff(reg[item_tag_type_id], b, pos + 5, reg, list_length, <<>>)

\* the loop of Compound.from_buff that ends at the sentinel without having
\* read it
CompoundEntriesFromBuffBeforeSentinel(b, pos, reg, data) ==
    IF pos = Len(b) THEN [err |-> "none", tag |-> CompoundTag(data), pos |-> pos]
    ELSE LET type_id == SignedBE(SubSeqFrom(b, pos, 1)) IN
         IF type_id = 0 THEN [err |-> "none", tag |-> CompoundTag(data), pos |-> pos]
         ELSE IF type_id \notin DOMAIN reg THEN Failed("ValueError", pos + 1)
         ELSE LET key == StringFromBuff(b, pos + 1) IN
              IF key.err # "none" THEN Failed(key.err, key.pos)
              ELSE LET value == FromBuff(reg[type_id], b, key.pos, reg) IN
                   IF value.err # "none" THEN Failed(value.err, value.pos)
                   ELSE CompoundEntriesFromBuff(b, value.pos, reg,
                                                DictSet(data, key.tag.str, value.tag))

\* the loop of Compound.from_buff (nbt.py 417-428)
CompoundEntriesFromBuff(b, pos, reg, data) ==
    IF pos = Len(b) THEN [err |-> "none", tag |-> CompoundTag(data), pos |-> pos]
    ELSE LET type_id == SignedBE(SubSeqFrom(b, pos, 1)) IN
         IF type_id = 0 THEN [err |-> "none", tag |-> CompoundTag(data), pos |-> pos + 1]
         ELSE IF type_id \notin DOMAIN reg THEN Failed("ValueError", pos + 1)
         ELSE LET key == StringFromBuff(b, pos + 1) IN
              IF key.err # "none" THEN Failed(key.err, key.pos)
              ELSE LET value == FromBuff(reg[type_id], b, key.pos, reg) IN
                   IF value.err # "none" THEN Failed(value.err, value.pos)
                   ELSE CompoundEntriesFromBuff(b, value.pos, reg,
                                                DictSet(data, key.tag.str, value.tag))

\* cls.from_buff for the class registered as kind; a class without from_buff
\* of its own raises NotImplementedError (nbt.py 98-100)
FromBuff(kind, b, pos, reg) ==
    IF kind \in IntKinds \cup FloatKinds THEN DataTagFromBuff(kind, b, pos)
    ELSE IF kind \in ArrayKinds THEN ArrayFromBuff(kind, b, pos)
    ELSE IF kind = "String" THEN StringFromBuff(b, pos)
    ELSE IF kind = "List" THEN ListFromBuff(b, pos, reg)
    ELSE IF kind = "Compound" THEN CompoundEntriesFromBuff(b, pos, reg, <<>>)
    ELSE Failed("NotImplementedError", pos)

NamedTag(name, entries) == [kind |-> "Named", name |-> name, entries |-> entries]

\* Named.from_bytes: the Compound loop over the whole stream, then
\* cls(data), which is Named.__init__ (nbt.py 414-430, 452-458)
NamedFromBuff(b, pos, reg) ==
    LET c == CompoundEntriesFromBuff(b, pos, reg, <<>>) IN
    IF c.err # "none" THEN c
    ELSE LET n == NamedInit(c.tag.entries, <<>>) IN
         IF n.err # "none" THEN Failed(n.err, c.pos)
         ELSE [err |-> "none", tag |-> NamedTag(n.name, n.content), pos |-> c.pos]

\* cls.from_bytes(bytes_) (nbt.py 94-96)
FromBytes(kind, bytes, reg) ==
    IF kind = "Named" THEN NamedFromBuff(bytes, 0, reg) ELSE FromBuff(kind, bytes, 0, reg)

\* value.tag_type_id: the class attribute, inherited by Named from Compound
TagTypeIdOf(ids, kind) == IF kind = "Named" THEN ids["Compound"] ELSE ids[kind]

\* _ArrayTag.to_bytes (nbt.py 233-248): the copy is padded at its front to a
\* whole number of elements
ArrayToBytes(kind, storage) ==
    LET w == FmtBytes(kind)
        needs_padding == Len(storage) % w
        data == IF needs_padding > 0 THEN [i \in 1..(w - needs_padding) |-> 0] \o storage
                ELSE storage
        prefix == UIntToBytes(Len(data) \div w, 4)
    IN  [err |-> "none", bytes |-> prefix.bytes \o data]

RECURSIVE ToBytes(_, _)
RECURSIVE ItemsToBytes(_, _, _, _)
RECURSIVE EntriesToBytes(_, _, _, _)

\* the loop of List.to_bytes (nbt.py 399-400)
ItemsToBytes(items, i, ids, packed) ==
    IF i > Len(items) THEN [err |-> "none", bytes |-> packed]
    ELSE LET r == ToBytes(items[i], ids) IN
         IF r.err # "none" THEN r ELSE ItemsToBytes(items, i + 1, ids, packed \o r.bytes)

\* the loop of Compound.to_bytes (nbt.py 435-439), then the end byte; the
\* print of each key and type writes to stdout and changes no state
EntriesToBytes(entries, i, ids, buff) ==
    IF i > Len(entries) THEN [err |-> "none", bytes |-> Append(buff, 0)]
    ELSE LET id == IntToBytes(TagTypeIdOf(ids, entries[i][2].kind), 1)
             key == StringToBytes(entries[i][1])
             value == ToBytes(entries[i][2], ids)
         IN  IF id.err # "none" THEN id
             ELSE IF key.err # "none" THEN key
             ELSE IF value.err # "none" THEN value
             ELSE EntriesToBytes(entries, i + 1, ids, buff \o id.bytes \o key.bytes \o value.bytes)

\* tag.to_bytes()
ToBytes(tag, ids) ==
    IF tag.kind \in IntKinds THEN
        IF "big" \in DOMAIN tag THEN BigToBytes(tag.big, FmtBytes(tag.kind))
        ELSE IntToBytes(tag.int, FmtBytes(tag.kind))
    ELSE IF tag.kind \in FloatKinds THEN FloatToBytes(tag.kind, tag.ieee)
    ELSE IF tag.kind \in ArrayKinds THEN ArrayToBytes(tag.kind, tag.storage)
    ELSE IF tag.kind = "String" THEN StringToBytes(tag.str)
    ELSE IF tag.kind = "List" THEN
        LET item_tag_type_id == IF Len(tag.items) > 0 THEN TagTypeIdOf(ids, tag.items[1].kind) ELSE 0
            id == UIntToBytes(item_tag_type_id, 1)
            n == UIntToBytes(Len(tag.items), 4)
        IN  IF id.err # "none" THEN id
            ELSE ItemsToBytes(tag.items, 1, ids, id.bytes \o n.bytes)
    ELSE IF tag.kind = "Compound" THEN EntriesToBytes(tag.entries, 1, ids, <<>>)
    ELSE IF tag.kind = "Named" THEN
        LET id == UIntToBytes(ids["Compound"], 1)
            name == StringToBytes(tag.name)
        IN  IF id.err # "none" THEN id
            ELSE IF name.err # "none" THEN name
            ELSE EntriesToBytes(tag.entries, 1, ids, id.bytes \o name.bytes)
    ELSE [err |-> "NotImplementedError", bytes |-> <<>>]

(***************************************************************************)
(* gzip framing (nbt.py 460-469, 531-540).  A gzip member is the 10-byte    *)
(* header 1F 8B 08 flags mtime xfl os, a deflate stream and the trailer     *)
(* CRC-32, ISIZE.  The deflate stream is kept as one stored block (01, the  *)
(* length and its complement, the bytes), and the CRC-32 field holds the    *)
(* sum of the bytes: what the codec needs of gzip is the magic at the front *)
(* and that decompress undoes compress and refuses what is no member.       *)
(***************************************************************************)
GzipMagic == <<31, 139>>

\* the header gzip.compress(data, mtime=0) writes: deflate, no flags, mtime
\* 0, best compression, unknown system
GzipHeader == GzipMagic \o <<8, 0, 0, 0, 0, 0, 2, 255>>

RECURSIVE SumBytes(_)
SumBytes(b) == IF b = <<>> THEN 0 ELSE (Head(b) + SumBytes(Tail(b))) % 65536

LE2(n) == <<n % 256, (n \div 256) % 256>>

GzipTrailer(b) == LE2(SumBytes(b)) \o <<0, 0>> \o LE2(Len(b)) \o <<0, 0>>

\* gzip.compress(bytes_, mtime=0)
GzipCompress(b) ==
    GzipHeader \o <<1>> \o LE2(Len(b)) \o LE2(65535 - Len(b)) \o b \o GzipTrailer(b)

\* gzip.decompress(bytes_)
GzipDecompress(z) ==
    IF Len(z) < 10 \/ SubSeq(z, 1, 3) # SubSeq(GzipHeader, 1, 3)
    THEN [err |-> "BadGzipFile", bytes |-> <<>>]
    ELSE IF Len(z) < 23 \/ z[11] # 1 THEN [err |-> "EOFError", bytes |-> <<>>]
    ELSE LET n == z[12] + 256 * z[13]
             b == SubSeq(z, 16, 15 + n)
         IN  IF z[14] + 256 * z[15] # 65535 - n \/ Len(z) # 23 + n
             THEN [err |-> "zlib.error", bytes |-> <<>>]
             ELSE IF SubSeq(z, 16 + n, 23 + n) # GzipTrailer(b)
             THEN [err |-> "BadGzipFile", bytes |-> <<>>]
             ELSE [err |-> "none", bytes |-> b]

\* Named.to_bytes(compress) (nbt.py 460-469)
NamedToBytes(tag, ids, compress) ==
    LET bytes_ == ToBytes(tag, ids) IN
    IF compress /\ bytes_.err = "none"
    THEN [err |-> "none", bytes |-> GzipCompress(bytes_.bytes)]
    ELSE bytes_

\* load_nbt_from_bytes that never decompresses
LoadNbtAsIs(bytes_, reg) == NamedFromBuff(bytes_, 0, reg)

\* load_nbt_from_bytes(bytes_) with no model (nbt.py 531-540)
LoadNbtFromBytes(bytes_, reg) ==
    IF Len(bytes_) >= 2 /\ SubSeq(bytes_, 1, 2) = GzipMagic THEN
        LET d == GzipDecompress(bytes_) IN
        IF d.err # "none" THEN Failed(d.err, 0) ELSE NamedFromBuff(d.bytes, 0, reg)
    ELSE NamedFromBuff(bytes_, 0, reg)

\* a == b for two tags: NbtTag.__eq__ compares to_obj() of the left with the
\* right, which Python turns into the comparison of the two native values:
\* numbers by value whatever their kind, strings by code points, lists
\* element by element, dicts by their keys whatever their order
RECURSIVE TagEq(_, _)
TagEq(a, b) ==
    LET num(t) == t.kind \in IntKinds \cup FloatKinds
        asFloat(t) == IF "ieee" \in DOMAIN t THEN t.ieee ELSE FloatOfInt(t.int)
    IN
    IF num(a) /\ num(b) THEN
        IF "big" \in DOMAIN a \/ "big" \in DOMAIN b
        THEN "big" \in DOMAIN a /\ "big" \in DOMAIN b /\ BigNorm(a.big) = BigNorm(b.big)
        ELSE IF "int" \in DOMAIN a /\ "int" \in DOMAIN b THEN a.int = b.int
        ELSE FloatEq(asFloat(a), asFloat(b))
    ELSE IF a.kind = "String" /\ b.kind = "String" THEN a.str = b.str
    ELSE IF a.kind \in ArrayKinds /\ b.kind \in ArrayKinds THEN
        a.kind = b.kind /\ a.storage = b.storage
    ELSE IF a.kind = "List" /\ b.kind = "List" THEN
        /\ Len(a.items) = Len(b.items)
        /\ \A i \in DOMAIN a.items : TagEq(a.items[i], b.items[i])
    ELSE IF a.kind = "Compound" /\ b.kind = "Compound" THEN
        /\ DictKeys(a.entries) = DictKeys(b.entries)
        /\ \A k \in DictKeys(a.entries) : TagEq(DictGet(a.entries, k), DictGet(b.entries, k))
    ELSE IF a.kind = "Named" /\ b.kind = "Named" THEN
        /\ a.name = b.name
        /\ DictKeys(a.entries) = DictKeys(b.entries)
        /\ \A k \in DictKeys(a.entries) : TagEq(DictGet(a.entries, k), DictGet(b.entries, k))
    ELSE FALSE

(***************************************************************************)
(* SNBT (snbt.py).  A text is the sequence of its code points.             *)
(***************************************************************************)
Digits == 48..57

\* pp.alphanums + "_-.+"
KeyAlphabet == Digits \cup (65..90) \cup (97..122) \cup {95, 45, 46, 43}

HexDigits == Digits \cup (65..70) \cup (97..102)

\* the characters pyparsing skips before a token: space, \t, \n, \r
WhiteChars == {32, 9, 10, 13}

\* str(n) of a natural number and of an integer
RECURSIVE NatStr(_)
NatStr(n) == IF n < 10 THEN <<48 + n>> ELSE Append(NatStr(n \div 10), 48 + (n % 10))

IntStr(n) == IF n >= 0 THEN NatStr(n) ELSE <<45>> \o NatStr(-n)

\* repr(x) of the floats of the model: 1.0, 3.2 (which is no single), -0.0,
\* 64.5, 1e+20, inf, 3.1415926, 1.5, -1.5 and the single nearest to 3.2
Dbl1 == Dbl(0, 1023, 0, 0)

Dbl3p2 == Dbl(0, 1024, 5033164, 429496730)

DblNegZero == Dbl(1, 0, 0, 0)

DblInf == Dbl(0, 2047, 0, 0)

Dbl64p5 == Dbl(0, 1029, 65536, 0)

Dbl1e20 == Dbl(0, 1089, 2980075, 414551104)

Dbl3p1415926 == Dbl(0, 1024, 4788186, 219338826)

Dbl1p5 == Dbl(0, 1023, 4194304, 0)

DblNeg1p5 == Dbl(1, 1023, 4194304, 0)

FloatReprs ==
    {<<Dbl1, <<49, 46, 48>>>>, <<Dbl3p2, <<51, 46, 50>>>>, <<DblNegZero, <<45, 48, 46, 48>>>>,
     <<Dbl64p5, <<54, 52, 46, 53>>>>, <<Dbl1e20, <<49, 101, 43, 50, 48>>>>,
     <<DblInf, <<105, 110, 102>>>>,
     <<Dbl3p1415926, <<51, 46, 49, 52, 49, 53, 57, 50, 54>>>>, <<Dbl1p5, <<49, 46, 53>>>>, <<DblNeg1p5, <<45, 49, 46, 53>>>>,
     <<Dbl(0, 1024, 5033165, 0), <<51, 46, 50, 48, 48, 48, 48, 48, 48, 52, 55, 54, 56, 51, 55, 49, 54>>>>}

FloatRepr(d) == (CHOOSE p \in FloatReprs : p[1] = d)[2]

HexDigit(n) == IF n < 10 THEN 48 + n ELSE 87 + n

Hex4(n) == <<HexDigit(n \div 4096), HexDigit((n \div 256) % 16), HexDigit((n \div 16) % 16),
             HexDigit(n % 16)>>

\* json.dumps of one character (ensure_ascii): the short escapes, \uXXXX for
\* everything outside space..~, a surrogate pair above U+FFFF
JsonEscape(c) ==
    CASE c = 34 -> <<92, 34>>
      [] c = 92 -> <<92, 92>>
      [] c = 10 -> <<92, 110>>
      [] c = 13 -> <<92, 114>>
      [] c = 9 -> <<92, 116>>
      [] c = 8 -> <<92, 98>>
      [] c = 12 -> <<92, 102>>
      [] OTHER ->
            IF c >= 32 /\ c <= 126 THEN <<c>>
            ELSE IF c < 65536 THEN <<92, 117>> \o Hex4(c)
            ELSE <<92, 117>> \o Hex4(55296 + ((c - 65536) \div 1024))
                     \o <<92, 117>> \o Hex4(56320 + ((c - 65536) % 1024))

RECURSIVE JsonEscapeAll(_)
JsonEscapeAll(str) ==
    IF str = <<>> THEN <<>> ELSE JsonEscape(Head(str)) \o JsonEscapeAll(Tail(str))

\* json.dumps(str)
JsonDumps(str) == <<34>> \o JsonEscapeAll(str) \o <<34>>

\* key_to_snbt (snbt.py 89-92)
KeyToSnbt(key) ==
    IF \E i \in DOMAIN key : key[i] \notin KeyAlphabet THEN JsonDumps(key) ELSE key

\* the elements of an array as iter(self.asarray()) gives them: unsigned,
\* one per FmtBytes(kind) bytes of storage (below 2^31 in the model)
ElemOfBytes(bs) ==
    CASE \A i \in 1..(Len(bs) - 4) : bs[i] = 0 ->
            IF Len(bs) < 4 THEN bs[1]
            ELSE LET lo == SubSeqFrom(bs, Len(bs) - 4, 4) IN
                 CASE lo[1] < 128 -> SignedBE(lo)

ArrayElems(tag) ==
    LET w == FmtBytes(tag.kind) IN
    [i \in 1..(Len(tag.storage) \div w) |-> ElemOfBytes(SubSeqFrom(tag.storage, (i - 1) * w, w))]

\* ",".join(values)
RECURSIVE JoinComma(_)
JoinComma(texts) ==
    IF texts = <<>> THEN <<>>
    ELSE IF Len(texts) = 1 THEN texts[1]
    ELSE texts[1] \o <<44>> \o JoinComma(Tail(texts))

\* a text with a decimal point in it
HasPoint(text) == \E i \in DOMAIN text : text[i] = 46

\* a Double written without its suffix when its literal has a decimal point
DoubleToSnbtBare(v) ==
    IF HasPoint(FloatRepr(v.ieee)) THEN FloatRepr(v.ieee)
    ELSE Append(FloatRepr(v.ieee), 68)

\* f"{v.to_obj()}D" (snbt.py 72-73): the repr of the float, then D
DoubleToSnbt(v) == Append(FloatRepr(v.ieee), 68)

\* to_snbt (snbt.py 61-96); a Named root is a Compound for isinstance
RECURSIVE ToSnbt(_)
ToSnbt(v) ==
    CASE v.kind = "Byte" -> Append(IntStr(v.int), 66)
      [] v.kind = "Short" -> Append(IntStr(v.int), 83)
      [] v.kind = "Int" -> IntStr(v.int)
      [] v.kind = "Long" -> Append(IntStr(v.int), 76)
      [] v.kind = "Float" -> Append(FloatRepr(v.ieee), 70)
      [] v.kind = "Double" -> DoubleToSnbt(v)
      [] v.kind = "String" -> JsonDumps(v.str)
      [] v.kind = "List" -> <<91>> \o JoinComma([i \in DOMAIN v.items |-> ToSnbt(v.items[i])]) \o <<93>>
      [] v.kind \in ArrayKinds ->
            LET unit == CASE v.kind = "ByteArray" -> 66
                          [] v.kind = "IntArray" -> 73
                          [] v.kind = "LongArray" -> 76
                elems == ArrayElems(v)
                values == [i \in DOMAIN elems |->
                              IF v.kind = "IntArray" THEN IntStr(elems[i])
                              ELSE Append(IntStr(elems[i]), unit)]
            IN  <<91, unit, 59>> \o JoinComma(values) \o <<93>>
      [] v.kind \in {"Compound", "Named"} ->
            <<123>> \o JoinComma([i \in DOMAIN v.entries |->
                                    KeyToSnbt(v.entries[i][1]) \o <<58>> \o ToSnbt(v.entries[i][2])])
                    \o <<125>>

(***************************************************************************)
(* The SNBT grammar (snbt.py 10-45), parsed as pyparsing does: white       *)
(* characters are skipped before every token, an alternation takes its     *)
(* first alternative that matches and never comes back to it, and a parse  *)
(* action that raises anything but a ParseException ends parse_string.     *)
(* Every parser returns [err, val, pos] where pos is the next position.    *)
(***************************************************************************)
NoMatch(pos) == [err |-> "ParseException", val |-> NoTag, pos |-> pos]

Matched(val, pos) == [err |-> "none", val |-> val, pos |-> pos]

Raised(e, pos) == [err |-> e, val |-> NoTag, pos |-> pos]

RECURSIVE SkipWhite(_, _)
SkipWhite(text, pos) ==
    IF pos <= Len(text) /\ text[pos] \in WhiteChars THEN SkipWhite(text, pos + 1) ELSE pos

\* the position after the longest run of characters of S from pos on
RECURSIVE SpanOf(_, _, _)
SpanOf(text, pos, S) ==
    IF pos <= Len(text) /\ text[pos] \in S THEN SpanOf(text, pos + 1, S) ELSE pos

Slice(text, from, to) == [i \in 1..(to - from) |-> text[from + i - 1]]

\* int(digits)
RECURSIVE NatOfDigits(_)
NatOfDigits(ds) ==
    IF ds = <<>> THEN 0 ELSE NatOfDigits(SubSeq(ds, 1, Len(ds) - 1)) * 10 + (ds[Len(ds)] - 48)

\* a sign [+-]? at pos: the position after it
AfterSign(text, pos) == IF pos <= Len(text) /\ text[pos] \in {43, 45} THEN pos + 1 ELSE pos

\* ppc.signed_integer: Regex [+-]?\d+ converted with int
SignedInteger(text, pos0) ==
    LET pos == SkipWhite(text, pos0)
        d == AfterSign(text, pos)
        end == SpanOf(text, d, Digits)
    IN  IF end = d THEN NoMatch(pos0)
        ELSE LET n == NatOfDigits(Slice(text, d, end)) IN
             Matched(IF d > pos /\ text[pos] = 45 THEN -n ELSE n, end)

\* float(lexeme): of an integer literal, and of the reprs of the model
FloatOfText(lexeme) ==
    LET d == AfterSign(lexeme, 1) IN
    IF SpanOf(lexeme, d, Digits) = Len(lexeme) + 1 /\ d <= Len(lexeme)
    THEN LET n == NatOfDigits(Slice(lexeme, d, Len(lexeme) + 1))
             f == FloatOfInt(n)
         IN  IF d > 1 /\ lexeme[1] = 45 THEN [f EXCEPT !.s = 1] ELSE f
    ELSE (CHOOSE p \in FloatReprs : p[2] = lexeme)[1]

\* ppc.fnumber: Regex [+-]?\d+\.?\d*([eE][+-]?\d+)?; the lexeme, which the
\* parse action converts with float
FNumber(text, pos0) ==
    LET pos == SkipWhite(text, pos0)
        d == AfterSign(text, pos)
        intEnd == SpanOf(text, d, Digits)
        dotEnd == IF intEnd <= Len(text) /\ text[intEnd] = 46 THEN intEnd + 1 ELSE intEnd
        fracEnd == SpanOf(text, dotEnd, Digits)
        expDigits == IF fracEnd <= Len(text) /\ text[fracEnd] \in {69, 101}
                     THEN AfterSign(text, fracEnd + 1) ELSE fracEnd
        expEnd == SpanOf(text, expDigits, Digits)
        end == IF expDigits > fracEnd /\ expEnd > expDigits THEN expEnd ELSE fracEnd
    IN  IF intEnd = d THEN NoMatch(pos0)
        ELSE Matched(Slice(text, pos, end), end)

\* FloatingPointNumber: Combine(Word(nums) + "." + Word(nums)); the lexeme
FloatingPointNumber(text, pos0) ==
    LET pos == SkipWhite(text, pos0)
        intEnd == SpanOf(text, pos, Digits)
        fracEnd == SpanOf(text, intEnd + 1, Digits)
    IN  IF intEnd > pos /\ intEnd <= Len(text) /\ text[intEnd] = 46 /\ fracEnd > intEnd + 1
        THEN Matched(Slice(text, pos, fracEnd), fracEnd)
        ELSE NoMatch(pos0)

\* Suppress(CaselessLiteral(letter)): upper is the capital letter
Suffix(text, pos0, upper) ==
    LET pos == SkipWhite(text, pos0) IN
    IF pos <= Len(text) /\ text[pos] \in {upper, upper + 32} THEN Matched(NoTag, pos + 1)
    ELSE NoMatch(pos0)

\* Suppress(literal)
Literal(text, pos0, lit) ==
    LET pos == SkipWhite(text, pos0) IN
    IF pos + Len(lit) - 1 <= Len(text) /\ Slice(text, pos, pos + Len(lit)) = lit
    THEN Matched(NoTag, pos + Len(lit))
    ELSE NoMatch(pos0)

\* number + suffix with the parse action (tag_type, toks[0])
Suffixed(kind, num, text, pos0, upper) ==
    IF num.err # "none" THEN NoMatch(pos0)
    ELSE LET sfx == Suffix(text, num.pos, upper) IN
         IF sfx.err # "none" THEN NoMatch(pos0)
         ELSE Matched(IF kind \in FloatKinds THEN FloatTag(kind, FloatOfText(num.val))
                      ELSE IntTag(kind, num.val),
                      sfx.pos)

ByteP(text, pos) == Suffixed("Byte", SignedInteger(text, pos), text, pos, 66)

ShortP(text, pos) == Suffixed("Short", SignedInteger(text, pos), text, pos, 83)

LongP(text, pos) == Suffixed("Long", SignedInteger(text, pos), text, pos, 76)

FloatP(text, pos) == Suffixed("Float", FNumber(text, pos), text, pos, 70)

DoubleP(text, pos) ==
    LET withD == Suffixed("Double", FNumber(text, pos), text, pos, 68) IN
    IF withD.err = "none" THEN withD
    ELSE LET plain == FloatingPointNumber(text, pos) IN
         IF plain.err # "none" THEN NoMatch(pos)
         ELSE Matched(FloatTag("Double", FloatOfText(plain.val)), plain.pos)

IntP(text, pos) ==
    LET num == SignedInteger(text, pos) IN
    IF num.err # "none" THEN NoMatch(pos) ELSE Matched(IntTag("Int", num.val), num.pos)

\* the Regex of pp.quoted_string for the quote q: the position after the
\* longest run of plain characters, doubled quotes and backslash escapes
RECURSIVE QuotedBody(_, _, _)
QuotedBody(text, i, q) ==
    IF i > Len(text) THEN i
    ELSE LET c == text[i] IN
         IF c = q THEN
             IF i + 1 <= Len(text) /\ text[i + 1] = q THEN QuotedBody(text, i + 2, q) ELSE i
         ELSE IF c \in {10, 13} THEN i
         ELSE IF c = 92 THEN
             IF i + 1 > Len(text) THEN i
             ELSE IF text[i + 1] # 120 THEN QuotedBody(text, i + 2, q)
             ELSE IF i + 2 <= Len(text) /\ text[i + 2] \in HexDigits THEN QuotedBody(text, i + 3, q)
             ELSE i
         ELSE QuotedBody(text, i + 1, q)

\* pp.quoted_string: the lexeme with its quotes
QuotedString(text, pos0) ==
    LET pos == SkipWhite(text, pos0) IN
    IF pos > Len(text) \/ text[pos] \notin {34, 39} THEN NoMatch(pos0)
    ELSE LET end == QuotedBody(text, pos + 1, text[pos]) IN
         IF end <= Len(text) /\ text[end] = text[pos]
         THEN Matched(Slice(text, pos, end + 1), end + 1)
         ELSE NoMatch(pos0)

HexValue(c) == IF c \in Digits THEN c - 48 ELSE IF c >= 97 THEN c - 87 ELSE c - 55

\* a \uXXXX escape at i (the position of the backslash): its code, or -1
UEscapeAt(s, i) ==
    IF i + 5 <= Len(s) /\ s[i] = 92 /\ s[i + 1] = 117
       /\ \A k \in 2..5 : s[i + k] \in HexDigits
    THEN HexValue(s[i + 2]) * 4096 + HexValue(s[i + 3]) * 256 + HexValue(s[i + 4]) * 16
         + HexValue(s[i + 5])
    ELSE -1

JsonShortEscapes == {<<34, 34>>, <<92, 92>>, <<47, 47>>, <<98, 8>>, <<102, 12>>, <<110, 10>>,
                     <<114, 13>>, <<116, 9>>}

\* json.loads of a lexeme: [err, str]
RECURSIVE JsonString(_, _, _)
JsonString(s, i, acc) ==
    LET bad == [err |-> "JSONDecodeError", str |-> <<>>] IN
    IF i > Len(s) THEN bad
    ELSE LET c == s[i] IN
         IF c = 34 THEN (IF i = Len(s) THEN [err |-> "none", str |-> acc] ELSE bad)
         ELSE IF c < 32 THEN bad
         ELSE IF c # 92 THEN JsonString(s, i + 1, Append(acc, c))
         ELSE IF i + 1 > Len(s) THEN bad
         ELSE IF \E e \in JsonShortEscapes : e[1] = s[i + 1]
              THEN JsonString(s, i + 2,
                      Append(acc, (CHOOSE e \in JsonShortEscapes : e[1] = s[i + 1])[2]))
         ELSE LET u == UEscapeAt(s, i)
                  v == UEscapeAt(s, i + 6)
              IN  IF u < 0 THEN bad
                  ELSE IF u >= 55296 /\ u <= 56319 /\ v >= 56320 /\ v <= 57343
                  THEN JsonString(s, i + 12,
                          Append(acc, 65536 + (u - 55296) * 1024 + (v - 56320)))
                  ELSE JsonString(s, i + 6, Append(acc, u))

JsonLoads(lexeme) ==
    IF lexeme[1] # 34 THEN [err |-> "JSONDecodeError", str |-> <<>>]
    ELSE JsonString(lexeme, 2, <<>>)

\* String: the parse action gives json.loads of the lexeme
StringP(text, pos) ==
    LET q == QuotedString(text, pos) IN
    IF q.err # "none" THEN NoMatch(pos)
    ELSE LET j == JsonLoads(q.val) IN
         IF j.err # "none" THEN Raised(j.err, q.pos) ELSE Matched(StringTag(j.str), q.pos)

\* CompoundKey: a Word of the key alphabet, or a quoted string without its
\* first and last character (pp.remove_quotes)
CompoundKey(text, pos0) ==
    LET pos == SkipWhite(text, pos0)
        end == SpanOf(text, pos, KeyAlphabet)
    IN  IF end > pos THEN Matched(Slice(text, pos, end), end)
        ELSE LET q == QuotedString(text, pos0) IN
             IF q.err # "none" THEN NoMatch(pos0)
             ELSE Matched(Slice(q.val, 2, Len(q.val)), q.pos)

\* Array(self.width, values).data for a list of integers (nbt.py 177)
RECURSIVE ArrayOfValues(_, _, _)
ArrayOfValues(kind, values, storage) ==
    IF values = <<>> THEN [err |-> "none", tag |-> ArrayTag(kind, storage)]
    ELSE LET b == UIntToBytes(Head(values), FmtBytes(kind)) IN
         IF b.err # "none" THEN [err |-> b.err, tag |-> NoTag]
         ELSE ArrayOfValues(kind, Tail(values), storage \o b.bytes)

RECURSIVE SnbtValue(_, _)
RECURSIVE Element(_, _, _)
RECURSIVE MoreElements(_, _, _, _)

\* ("," expr)*: the outcome next of expr after a comma
AfterNext(next, which, text, pos, items) ==
    IF next.err = "ParseException" THEN Matched(items, pos)
    ELSE IF next.err # "none" THEN next
    ELSE MoreElements(which, text, next.pos, Append(items, next.val))

AfterComma(comma, which, text, pos, items) ==
    IF comma.err # "none" THEN Matched(items, pos)
    ELSE AfterNext(Element(which, text, comma.pos), which, text, pos, items)

MoreElements(which, text, pos, items) ==
    AfterComma(Literal(text, pos, <<44>>), which, text, pos, items)

AfterFirst(first, which, text) ==
    IF first.err # "none" THEN first
    ELSE MoreElements(which, text, first.pos, <<first.val>>)

\* delimited_list(expr): expr, then ("," expr) as long as both match
DelimitedList(which, text, pos) == AfterFirst(Element(which, text, pos), which, text)

Closed(c, items, pos) == IF c.err # "none" THEN NoMatch(pos) ELSE Matched(items, c.pos)

\* Optional(list): no list is an empty one
AfterInner(inner, innerPos, text, pos, close) ==
    IF inner.err = "none" THEN Closed(Literal(text, inner.pos, close), inner.val, pos)
    ELSE IF inner.err = "ParseException" THEN Closed(Literal(text, innerPos, close), <<>>, pos)
    ELSE inner

AfterOpen(o, which, text, pos, close) ==
    IF o.err # "none" THEN NoMatch(pos)
    ELSE AfterInner(DelimitedList(which, text, o.pos), o.pos, text, pos, close)

\* Suppress(open) + Optional(delimited list) + Suppress(close)
Bracketed(which, text, pos, open, close) ==
    AfterOpen(Literal(text, pos, open), which, text, pos, close)

\* The parse actions leave (tag_type, value) tokens.  A scalar token is
\* written as the tag make_tag builds from it; the token of an array holds
\* the integers of its elements, that of a List its element tokens and that
\* of a Compound its [key, token] groups.
ArrayToken(kind, values) == [kind |-> kind, values |-> values]

CompoundToken(groups) == [kind |-> "Compound", groups |-> groups]

ArrayOf(kind, b) ==
    IF b.err # "none" THEN b
    ELSE Matched(ArrayToken(kind, [i \in DOMAIN b.val |-> b.val[i].int]), b.pos)

\* ByteArray, IntArray, LongArray
ArrayP(kind, which, text, pos, unit) ==
    ArrayOf(kind, Bracketed(which, text, pos, <<91, unit, 59>>, <<93>>))

ListOf(b) == IF b.err # "none" THEN b ELSE Matched(ListTag(b.val), b.pos)

ListP(text, pos) == ListOf(Bracketed("Value", text, pos, <<91>>, <<93>>))

CompoundOf(b) == IF b.err # "none" THEN b ELSE Matched(CompoundToken(b.val), b.pos)

CompoundP(text, pos) == CompoundOf(Bracketed("Entry", text, pos, <<123>>, <<125>>))

\* Group(CompoundKey + Suppress(":") + SnbtValue)
GroupOf(key, value, pos) ==
    IF value.err = "ParseException" THEN NoMatch(pos)
    ELSE IF value.err # "none" THEN value
    ELSE Matched(<<key, value.val>>, value.pos)

AfterColon(colon, key, text, pos) ==
    IF colon.err # "none" THEN NoMatch(pos)
    ELSE GroupOf(key, SnbtValue(text, colon.pos), pos)

AfterKey(key, text, pos) ==
    IF key.err # "none" THEN NoMatch(pos)
    ELSE AfterColon(Literal(text, key.pos, <<58>>), key.val, text, pos)

\* one element of a delimited list: a Byte, Int or Long of an array, a value
\* of a List, or a [key, value] group of a Compound
Element(which, text, pos) ==
    CASE which = "Byte" -> ByteP(text, pos)
      [] which = "Int" -> IntP(text, pos)
      [] which = "Long" -> LongP(text, pos)
      [] which = "Value" -> SnbtValue(text, pos)
      [] which = "Entry" -> AfterKey(CompoundKey(text, pos), text, pos)

\* a | b: the outcome r of the earlier alternative or, when that did not
\* match, the later one (a MatchFirst never comes back to an alternative)
OrElse(r, later) == IF r.err = "ParseException" THEN later ELSE r

\* Byte | Short | Long | Float | Double | Int | String | ByteArray | IntArray
\* | LongArray: the alternatives of SnbtValue that hold no SnbtValue, in
\* their order (snbt.py 38)
ScalarValue(text, pos) ==
    OrElse(ByteP(text, pos),
    OrElse(ShortP(text, pos),
    OrElse(LongP(text, pos),
    OrElse(FloatP(text, pos),
    OrElse(DoubleP(text, pos),
    OrElse(IntP(text, pos),
    OrElse(StringP(text, pos),
    OrElse(ArrayP("ByteArray", "Byte", text, pos, 66),
    OrElse(ArrayP("IntArray", "Int", text, pos, 73),
           ArrayP("LongArray", "Long", text, pos, 76))))))))))

\* ... | List | Compound, tried when none of the earlier ones matched
OrNested(r, text, pos) ==
    IF r.err # "ParseException" THEN r ELSE OrElse(ListP(text, pos), CompoundP(text, pos))

SnbtValue(text, pos) == OrNested(ScalarValue(text, pos), text, pos)

\* List(items): the class is a list subclass without __init__ or __new__ of
\* its own (nbt.py 379-409), so list.__init__ takes any items
ListInit(items) == [err |-> "none", tag |-> ListTag(items)]

\* make_tag (snbt.py 48-53): [err, tag]
RECURSIVE MakeTag(_)
RECURSIVE MakeItems(_, _, _)
RECURSIVE MakeEntries(_, _, _)

MakeItems(toks, i, items) ==
    IF i > Len(toks) THEN ListInit(items)
    ELSE LET t == MakeTag(toks[i]) IN
         IF t.err # "none" THEN t ELSE MakeItems(toks, i + 1, Append(items, t.tag))

MakeEntries(groups, i, data) ==
    IF i > Len(groups) THEN [err |-> "none", tag |-> CompoundTag(data)]
    ELSE LET t == MakeTag(groups[i][2]) IN
         IF t.err # "none" THEN t
         ELSE MakeEntries(groups, i + 1, DictSet(data, groups[i][1], t.tag))

MakeTag(tok) ==
    IF tok.kind = "List" THEN MakeItems(tok.items, 1, <<>>)
    ELSE IF tok.kind = "Compound" THEN MakeEntries(tok.groups, 1, <<>>)
    ELSE IF tok.kind \in ArrayKinds THEN ArrayOfValues(tok.kind, tok.values, <<>>)
    ELSE [err |-> "none", tag |-> tok]

\* from_snbt (snbt.py 56-58): parse_string takes a value at the start of the
\* text and does not look at what follows it
FromSnbt(text) ==
    LET r == SnbtValue(text, 1) IN
    IF r.err # "none" THEN [err |-> r.err, tag |-> NoTag, pos |-> r.pos]
    ELSE LET t == MakeTag(r.val) IN [err |-> t.err, tag |-> t.tag, pos |-> r.pos]

(***************************************************************************)
(* The specifications.  Each one starts the other groups of variables in   *)
(* their idle state (the registry as nbt.py leaves it at import) and       *)
(* leaves them unchanged.                                                  *)
(***************************************************************************)

CalcIdle ==
    /\ calcArg = [isInt |-> FALSE, vals |-> <<>>]
    /\ calcRes = NoResult

ArrIdle ==
    /\ arrW = 0
    /\ store = <<>>
    /\ view = NoView
    /\ lastOp = NoOp
    /\ nWrites = 0

PackPending == [err |-> "pending", width |-> 0, st |-> <<>>]

PackIdle ==
    /\ packArg = [W |-> 0, values |-> <<>>, width |-> 0]
    /\ packRes = PackPending

NoRegCall ==
    [id |-> 0, kind |-> "none", overwrite |-> FALSE, err |-> "none",
     reg |-> EmptyRegistry, ids |-> NoIds]

RegStartup ==
    /\ tag_type_registry = ImportNbt(EmptyRegistry, NoIds, 1).reg
    /\ tag_type_id = ImportNbt(EmptyRegistry, NoIds, 1).ids
    /\ regCall = NoRegCall
    /\ nRegs = 0

NamedPending == [err |-> "pending", name |-> <<>>, content |-> <<>>]

NamedIdle ==
    /\ namedArg = [initialdata |-> <<>>, kwargs |-> <<>>]
    /\ namedRes = NamedPending

NoMut == [at |-> 0, byte |-> 0, role |-> "none", depth |-> 0]

WirePending == [err |-> "pending", bytes |-> <<>>]

DecodePending == [err |-> "pending", tag |-> NoTag, pos |-> 0]

WireIdle ==
    /\ wireTag = NoTag
    /\ wireMut = NoMut
    /\ wire = WirePending
    /\ wireOut = DecodePending

TextPending == [err |-> "pending", text |-> <<>>]

ParsePending == [err |-> "pending", tag |-> NoTag, pos |-> 0]

SnbtIdle ==
    /\ snbtTag = NoTag
    /\ snbtText = TextPending
    /\ snbtOut = ParsePending

EqPending == [err |-> "pending", truth |-> FALSE]

EqIdle ==
    /\ eqLeft = NoTag
    /\ eqRight = NoTag
    /\ eqLib = "none"
    /\ eqRes = EqPending

NoObj == [py |-> "none"]

ObjPending == [err |-> "pending", obj |-> NoObj]

ObjIdle ==
    /\ objTag = NoTag
    /\ objRes = ObjPending

ModelPending == [err |-> "pending", tag |-> NoTag]

ModelIdle ==
    /\ modelArg = [instance |-> NoObj, name |-> NoObj]
    /\ modelRes = ModelPending

LitPending == [err |-> "pending", width |-> 0, st |-> <<>>]

ReadPending == [err |-> "pending", bits |-> 0, cells |-> <<>>]

LitIdle ==
    /\ litArg = [palette |-> 0, cells |-> <<>>]
    /\ BlockStates = LitPending
    /\ litBlocks = ReadPending

\* the longest list handed to calcsize
MaxCalcLen == 2

CalcValues == {-300, -5, -4, -1, 0, 1, 2, 3, 4, 5, 7, 8, 9, 300}

CalcArgs ==
    {[isInt |-> TRUE, vals |-> <<v>>] : v \in CalcValues}
    \cup {[isInt |-> FALSE, vals |-> s] : s \in SeqsUpTo(CalcValues, MaxCalcLen)}

CalcInit ==
    /\ calcArg \in CalcArgs
    /\ calcRes = NoResult
    /\ ArrIdle /\ PackIdle /\ RegStartup /\ NamedIdle /\ WireIdle /\ SnbtIdle /\ EqIdle /\ ObjIdle /\ ModelIdle /\ LitIdle

CalcsizeCall ==
    /\ calcRes = NoResult
    /\ calcRes' = CalcSize(calcArg)
    /\ UNCHANGED <<calcArg, arrVars, packVars, regVars, namedVars, wireVars, snbtVars, eqVars, objVars, modelVars, litVars>>

CalcNext == CalcsizeCall

SpecCalc == CalcInit /\ [][CalcNext]_vars

\* the number of backing words of the array
NumWords == 2

\* the number of __setitem__ calls in a behaviour
MaxWrites == 1

\* the virtual widths tried on each backing width
ViewWidths(W) ==
    IF W = 8 THEN 2..8
    ELSE IF W = 32 THEN {3, 12, 17, 31, 32}
    ELSE {7, 12, 33, 63, 64}

\* the values written: 0, all ones, and alternating bits
ValuesOf(n) == {{}, Ones(n), {b \in Ones(n) : b % 2 = 1}}

\* the contents an array starts with: all zero, or alternating bits
InitialWords(W) == {{}, {b \in Ones(W) : b % 2 = 0}}

\* the virtual indices tried: every whole slot and the first one past them
ViewIndices(W, V) == 0..((NumWords * W) \div V)

ArrInit ==
    /\ arrW \in BackingWidths
    /\ \E w \in InitialWords(arrW) : store = <<[k \in 1..NumWords |-> w]>>
    /\ view = NoView
    /\ lastOp = NoOp
    /\ nWrites = 0
    /\ CalcIdle /\ PackIdle /\ RegStartup /\ NamedIdle /\ WireIdle /\ SnbtIdle /\ EqIdle /\ ObjIdle /\ ModelIdle /\ LitIdle

\* view = arr(V)
Call ==
    /\ nWrites < MaxWrites
    /\ \E V \in ViewWidths(arrW) :
         /\ view.vw # V
         /\ LET r == CallView(Base, V, store) IN
              /\ view' = r.handle
              /\ store' = r.heap
    /\ UNCHANGED <<arrW, lastOp, nWrites, calcVars, packVars, regVars, namedVars, wireVars, snbtVars, eqVars, objVars, modelVars, litVars>>

\* view[idx] = value
ViewSetItem ==
    /\ view # NoView
    /\ nWrites < MaxWrites
    /\ \E idx \in ViewIndices(arrW, view.vw), value \in ValuesOf(view.vw) :
         LET r == SetItem(store[view.sid], arrW, view.vw, idx, value) IN
           /\ store' = [store EXCEPT ![view.sid] = r.st]
           /\ lastOp' = [op |-> "view", vw |-> view.vw, idx |-> idx, value |-> value,
                         err |-> r.err, before |-> store[view.sid]]
    /\ nWrites' = nWrites + 1
    /\ UNCHANGED <<arrW, view, calcVars, packVars, regVars, namedVars, wireVars, snbtVars, eqVars, objVars, modelVars, litVars>>

\* arr[k] = value
ArrSetItem ==
    /\ nWrites < MaxWrites
    /\ \E k \in 0..NumWords, value \in ValuesOf(arrW) :
         LET r == NativeSetItem(store[BaseSid], arrW, k, value) IN
           /\ store' = [store EXCEPT ![BaseSid] = r.st]
           /\ lastOp' = [op |-> "native", vw |-> 0, idx |-> k, value |-> value,
                         err |-> r.err, before |-> store[BaseSid]]
    /\ nWrites' = nWrites + 1
    /\ UNCHANGED <<arrW, view, calcVars, packVars, regVars, namedVars, wireVars, snbtVars, eqVars, objVars, modelVars, litVars>>

ArrNext == Call \/ ViewSetItem \/ ArrSetItem

SpecArray == ArrInit /\ [][ArrNext]_vars

\* the longest list packed
MaxPackLen == 3

\* the values packed (palette indices)
PackValues == {0, 1, 2, 3, 4, 5, 7, 200}

\* the widths given to pack_list; 0 is the omitted width
PackWidths == {0, 2, 3, 5, 8}

PackInit ==
    /\ packArg \in [W : BackingWidths, values : SeqsUpTo(PackValues, MaxPackLen),
                    width : PackWidths]
    /\ packRes = PackPending
    /\ CalcIdle /\ ArrIdle /\ RegStartup /\ NamedIdle /\ WireIdle /\ SnbtIdle /\ EqIdle /\ ObjIdle /\ ModelIdle /\ LitIdle

PackListCall ==
    /\ packRes = PackPending
    /\ packRes' = PackList(packArg.W, packArg.values, packArg.width)
    /\ UNCHANGED <<packArg, calcVars, arrVars, regVars, namedVars, wireVars, snbtVars, eqVars, objVars, modelVars, litVars>>

PackNext == PackListCall

SpecPack == PackInit /\ [][PackNext]_vars

\* the number of register_tag_type calls after start-up
MaxRegs == 2

\* the ids and types the calls are made with
RegIds == {1, 3, 13, 163}

RegTypes == {"Byte", "Int", "Compound", "Custom", "set", "instance"}

RegInit == RegStartup /\ CalcIdle /\ ArrIdle /\ PackIdle /\ NamedIdle /\ WireIdle /\ SnbtIdle /\ EqIdle /\ ObjIdle /\ ModelIdle /\ LitIdle

RegisterCall ==
    /\ nRegs < MaxRegs
    /\ \E id \in RegIds, kind \in RegTypes, overwrite \in BOOLEAN :
         LET r == RegisterTagType(tag_type_registry, tag_type_id, id, kind, overwrite) IN
           /\ tag_type_registry' = r.reg
           /\ tag_type_id' = r.ids
           /\ regCall' = [id |-> id, kind |-> kind, overwrite |-> overwrite, err |-> r.err,
                          reg |-> tag_type_registry, ids |-> tag_type_id]
    /\ nRegs' = nRegs + 1
    /\ UNCHANGED <<calcVars, arrVars, packVars, namedVars, wireVars, snbtVars, eqVars, objVars, modelVars, litVars>>

RegNext == RegisterCall

SpecRegistry == RegInit /\ [][RegNext]_vars

\* the most keys of the mapping handed to Named
MaxNamedKeys == 2

NamedKeys == {<<>>, StrFoo, StrBar}

\* keyword arguments are identifiers
NamedKwargKeys == {StrFoo, StrBar}

NamedValues ==
    {CompoundTag(<<>>),
     CompoundTag(<<<<StrFoo, StringTag(StrBar)>>>>),
     IntTag("Int", 1)}

DictsOver(K, V, n) == {d \in SeqsUpTo(K \X V, n) : IsDict(d)}

NamedInitial ==
    /\ namedArg \in [initialdata : DictsOver(NamedKeys, NamedValues, MaxNamedKeys),
                     kwargs : DictsOver(NamedKwargKeys, NamedValues, 1)]
    /\ namedRes = NamedPending
    /\ CalcIdle /\ ArrIdle /\ PackIdle /\ RegStartup /\ WireIdle /\ SnbtIdle /\ EqIdle /\ ObjIdle /\ ModelIdle /\ LitIdle

NamedCall ==
    /\ namedRes = NamedPending
    /\ namedRes' = NamedInit(namedArg.initialdata, namedArg.kwargs)
    /\ UNCHANGED <<namedArg, calcVars, arrVars, packVars, regVars, wireVars, snbtVars, eqVars, objVars, modelVars, litVars>>

NamedNext == NamedCall

SpecNamed == NamedInitial /\ [][NamedNext]_vars

(***************************************************************************)
(* SpecCodec: a tag is encoded with to_bytes and the stream is decoded     *)
(* with from_bytes of the tag's class; or a stream arrives that is the     *)
(* encoding of a tag in which one discriminator byte was replaced.         *)
(***************************************************************************)
\* the longest List and the largest Compound of the tags encoded
MaxListLen == 2

MaxEntries == 2

StrEAcute == <<233>>

StrEAcuteA == <<233, 97>>

StrEuro == <<8364>>

StrA == <<97>>

AsciiLeaves ==
    {IntTag("Byte", -1), IntTag("Byte", 127), IntTag("Short", 258), IntTag("Int", 1),
     IntTag("Int", -2), IntTag("Long", 1), IntTag("Long", -3),
     FloatTag("Float", Dbl1), FloatTag("Double", Dbl1), FloatTag("Double", Dbl3p2),
     FloatTag("Double", DblNegZero),
     StringTag(<<>>), StringTag(StrA), StringTag(StrFoo),
     ArrayTag("ByteArray", <<>>), ArrayTag("ByteArray", <<1, 2, 3>>),
     ArrayTag("IntArray", <<0, 0, 0, 1, 0, 0, 0, 2>>),
     ArrayTag("LongArray", <<0, 0, 0, 0, 0, 0, 0, 1>>)}

Leaves ==
    AsciiLeaves \cup {FloatTag("Float", Dbl3p2), StringTag(StrEAcute), StringTag(StrEAcuteA),
                      StringTag(StrEuro)}

\* List(items) of items of one kind
ListsOver(S, n) ==
    {ListTag(l) : l \in {m \in SeqsUpTo(S, n) : \A i, j \in DOMAIN m : m[i].kind = m[j].kind}}

CompoundsOver(K, V, n) == {CompoundTag(d) : d \in DictsOver(K, V, n)}

EntryValues == {IntTag("Int", 1), IntTag("Byte", -1), StringTag(StrFoo)}

Nested1 ==
    {ListTag(<<>>), ListTag(<<IntTag("Int", 1), IntTag("Int", 2)>>), ListTag(<<StringTag(StrA)>>),
     CompoundTag(<<>>), CompoundTag(<<<<StrFoo, StringTag(StrBar)>>>>),
     CompoundTag(<<<<StrA, ListTag(<<IntTag("Short", 7)>>)>>>>)}

Nested2 ==
    {CompoundTag(<<<<StrA, ListTag(<<CompoundTag(<<<<StrFoo, ListTag(<<IntTag("Byte", 1)>>)>>>>)>>)>>>>),
     ListTag(<<ListTag(<<CompoundTag(<<<<StrA, IntTag("Int", 1)>>>>)>>)>>),
     CompoundTag(<<<<<<>>, CompoundTag(<<<<StrFoo, StringTag(StrBar)>>>>)>>,
                   <<StrA, CompoundTag(<<<<StrA, CompoundTag(<<>>)>>>>)>>>>)}

AsciiTags ==
    AsciiLeaves \cup ListsOver(AsciiLeaves, MaxListLen)
        \cup CompoundsOver({StrA, StrFoo}, EntryValues, MaxEntries)
        \cup ListsOver(Nested1, MaxListLen)
        \cup CompoundsOver({StrA, <<>>}, Nested1, MaxEntries)
        \cup Nested2
        \cup {NamedTag(n, c.entries) : n \in {<<>>, StrFoo},
                                       c \in {t \in Nested1 \cup Nested2 : t.kind = "Compound"}}

\* integers at and beyond the ends of the range of their kind: 2^31,
\* -2^31 - 1, 2^63 and -2^63 - 1 are held as bytes
RangeLeaves ==
    {IntTag("Byte", -128), IntTag("Byte", 128), IntTag("Byte", -129), IntTag("Byte", 300),
     IntTag("Short", 32767), IntTag("Short", -32768), IntTag("Short", 32768),
     IntTag("Short", -32769), IntTag("Int", 2147483647), IntTag("Int", -2147483647 - 1),
     BigTag("Int", <<0, 128, 0, 0, 0>>), BigTag("Int", <<255, 127, 255, 255, 255>>),
     BigTag("Long", <<127, 255, 255, 255, 255, 255, 255, 255>>),
     BigTag("Long", <<128, 0, 0, 0, 0, 0, 0, 0>>), BigTag("Long", <<1, 0, 0, 0, 0>>),
     BigTag("Long", <<0, 128, 0, 0, 0, 0, 0, 0, 0>>),
     BigTag("Long", <<255, 127, 255, 255, 255, 255, 255, 255, 255>>)}

WireTags ==
    AsciiTags \cup Leaves \cup ListsOver(Leaves \ AsciiLeaves, MaxListLen)
        \cup CompoundsOver({StrA, StrEAcute}, {IntTag("Int", 1), StringTag(StrEuro)}, MaxEntries)
        \cup {NamedTag(StrEAcute, <<>>)}

\* arrays built from a bit buffer that is no whole number of elements: an
\* IntArray of 5 bytes, one of 2 bytes and a LongArray of 10 bytes
UnpaddedArrays ==
    {ArrayTag("IntArray", <<0, 0, 0, 1, 2>>), ArrayTag("IntArray", <<1, 2>>),
     ArrayTag("LongArray", <<0, 0, 0, 0, 0, 0, 0, 1, 0, 3>>)}

\* the tags given to to_bytes
CodecTags ==
    WireTags \cup RangeLeaves \cup UnpaddedArrays
        \cup {ListTag(<<IntTag("Byte", 1), IntTag("Byte", 300)>>),
              CompoundTag(<<<<StrA, IntTag("Short", 32768)>>>>),
              ListTag(<<IntTag("Byte", 1), IntTag("Int", 2)>>)}

EncLen(tag, ids) == Len(ToBytes(tag, ids).bytes)

RECURSIVE SumLen(_, _)
SumLen(f, n) == IF n = 0 THEN 0 ELSE SumLen(f, n - 1) + f[n]

\* where the discriminator bytes lie in tag.to_bytes() when it starts after
\* offset bytes: the element kind of each List and the kind byte of each
\* Compound entry (the first byte of a Named root is one), with the nesting
\* depth of each
RECURSIVE KindPositions(_, _, _, _)
KindPositions(tag, offset, depth, ids) ==
    IF tag.kind = "List" THEN
        LET lens == [i \in DOMAIN tag.items |-> EncLen(tag.items[i], ids)] IN
        {[at |-> offset + 1, role |-> "list", depth |-> depth]}
            \cup UNION {KindPositions(tag.items[i], offset + 5 + SumLen(lens, i - 1),
                                      depth + 1, ids) : i \in DOMAIN tag.items}
    ELSE IF tag.kind = "Compound" THEN
        LET lens == [i \in DOMAIN tag.entries |->
                        1 + Len(StringToBytes(tag.entries[i][1]).bytes)
                          + EncLen(tag.entries[i][2], ids)]
        IN  UNION {LET start == offset + SumLen(lens, i - 1) IN
                   {[at |-> start + 1, role |-> "entry", depth |-> depth]}
                       \cup KindPositions(tag.entries[i][2],
                                start + 1 + Len(StringToBytes(tag.entries[i][1]).bytes),
                                depth + 1, ids) : i \in DOMAIN tag.entries}
    ELSE IF tag.kind = "Named" THEN
        {[at |-> offset + 1, role |-> "entry", depth |-> depth]}
            \cup KindPositions(CompoundTag(tag.entries),
                               offset + 1 + Len(StringToBytes(tag.name).bytes), depth + 1, ids)
    ELSE {}

\* the bytes put in place of a discriminator: 0, the first id above the
\* built-in ones, 0xA3 and 0xFF
MutBytes == {0, 13, 163, 255}

StartupIds == ImportNbt(EmptyRegistry, NoIds, 1).ids

\* the tags of which every proper prefix of the encoding is decoded
CutTags ==
    AsciiLeaves \cup Nested1 \cup Nested2
        \cup {ListTag(<<CompoundTag(<<>>), CompoundTag(<<>>)>>),
              ListTag(<<CompoundTag(<<<<StrFoo, StringTag(StrBar)>>>>),
                        CompoundTag(<<<<StrFoo, StringTag(StrBar)>>>>)>>),
              ListTag(<<StringTag(StrA), StringTag(StrFoo)>>),
              CompoundTag(<<<<StrFoo, StringTag(StrBar)>>, <<StrA, IntTag("Int", 1)>>>>),
              NamedTag(<<>>, <<<<StrFoo, StringTag(StrBar)>>>>),
              NamedTag(StrFoo, <<<<StrA, ListTag(<<IntTag("Short", 7)>>)>>>>)}

\* the class on which from_bytes is called with a stream that no to_bytes
\* of the model has made
ClassOf(kind) == [kind |-> kind]

StrB == <<98>>

\* such streams, with the keys of their top-level entries as they come:
\* Compounds in which a key comes twice ({a: 1, b: 2, a: 3} and {b: 1, b: 2}),
\* a Compound of the keys b, a in this order, Lists of Compounds and of Lists
\* of which the stream holds the header only, and a List of Bytes of count -1
RawStreams ==
    {[kind |-> "Compound", keys |-> <<StrA, StrB, StrA>>,
      bytes |-> <<3, 0, 1, 97, 0, 0, 0, 1, 3, 0, 1, 98, 0, 0, 0, 2, 3, 0, 1, 97, 0, 0, 0, 3, 0>>],
     [kind |-> "Compound", keys |-> <<StrB, StrB>>,
      bytes |-> <<1, 0, 1, 98, 1, 1, 0, 1, 98, 2, 0>>],
     [kind |-> "Compound", keys |-> <<StrB, StrA>>,
      bytes |-> <<1, 0, 1, 98, 1, 1, 0, 1, 97, 2, 0>>],
     [kind |-> "List", keys |-> <<>>, bytes |-> <<10, 0, 0, 0, 1>>],
     [kind |-> "List", keys |-> <<>>, bytes |-> <<10, 0, 0, 0, 6>>],
     [kind |-> "List", keys |-> <<>>, bytes |-> <<9, 0, 0, 0, 2>>],
     [kind |-> "List", keys |-> <<>>, bytes |-> <<1, 255, 255, 255, 255, 7>>]}

\* streams given to load_nbt_from_bytes that no to_bytes has made: the magic
\* alone, the magic before the stream of the root '' of an empty Compound,
\* that stream after 1F only, and the empty stream
NotGzip == {GzipMagic, GzipMagic \o <<10, 0, 0, 0>>, <<31, 10, 0, 0, 0>>, <<>>}

\* a third kind of call: List[T].from_bytes, where wireMut.byte is the id of
\* the parameter T; the subscripted class hands from_bytes to List itself, so
\* from_buff runs with cls = List and never sees T
WireInit ==
    /\ \/ wireTag \in CodecTags /\ wireMut = NoMut /\ wire = WirePending
       \/ /\ wireTag \in AsciiTags
          /\ \E m \in KindPositions(wireTag, 0, 1, StartupIds), b \in MutBytes :
                /\ b # ToBytes(wireTag, StartupIds).bytes[m.at]
                /\ wireMut = [at |-> m.at, byte |-> b, role |-> m.role, depth |-> m.depth]
                /\ wire = [err |-> "none",
                           bytes |-> [ToBytes(wireTag, StartupIds).bytes EXCEPT ![m.at] = b]]
       \/ /\ wireTag \in ListsOver(AsciiLeaves, 1)
          /\ \E k \in Range(BuiltinKinds) :
                wireMut = [at |-> 0, byte |-> StartupIds[k], role |-> "expects", depth |-> 0]
          /\ wire = WirePending
       \/ /\ wireTag \in CutTags
          /\ \E n \in 0..(Len(ToBytes(wireTag, StartupIds).bytes) - 1) :
                /\ wireMut = [at |-> n, byte |-> 0, role |-> "cut", depth |-> 0]
                /\ wire = [err |-> "none",
                           bytes |-> SubSeq(ToBytes(wireTag, StartupIds).bytes, 1, n)]
       \/ /\ wireTag \in CodecTags /\ wireTag.kind = "Named"
          /\ \E compress \in 0..1 :
                wireMut = [at |-> 0, byte |-> compress, role |-> "load", depth |-> 0]
          /\ wire = WirePending
       \/ /\ wireTag = ClassOf("Named")
          /\ wireMut = [at |-> 0, byte |-> 0, role |-> "load", depth |-> 0]
          /\ \E b \in NotGzip : wire = [err |-> "none", bytes |-> b]
       \/ \E s \in RawStreams :
              /\ wireTag = ClassOf(s.kind)
              /\ wireMut = [at |-> 0, byte |-> 0, role |-> "raw", depth |-> 0]
              /\ wire = [err |-> "none", bytes |-> s.bytes]
    /\ wireOut = DecodePending
    /\ CalcIdle /\ ArrIdle /\ PackIdle /\ RegStartup /\ NamedIdle /\ SnbtIdle /\ EqIdle /\ ObjIdle /\ ModelIdle /\ LitIdle

\* tag.to_bytes(), or root.to_bytes(compress) before load_nbt_from_bytes
ToBytesCall ==
    /\ wireTag # NoTag
    /\ wire = WirePending
    /\ wire' = IF wireMut.role = "load"
               THEN NamedToBytes(wireTag, tag_type_id, wireMut.byte = 1)
               ELSE ToBytes(wireTag, tag_type_id)
    /\ UNCHANGED <<wireTag, wireMut, wireOut, calcVars, arrVars, packVars, regVars, namedVars, snbtVars, eqVars, objVars, modelVars, litVars>>

FromBytesCall ==
    /\ wireMut.role # "load"
    /\ wire.err = "none"
    /\ wireOut = DecodePending
    /\ wireOut' = FromBytes(wireTag.kind, wire.bytes, tag_type_registry)
    /\ UNCHANGED <<wireTag, wireMut, wire, calcVars, arrVars, packVars, regVars, namedVars, snbtVars, eqVars, objVars, modelVars, litVars>>

LoadNbtCall ==
    /\ wireMut.role = "load"
    /\ wire.err = "none"
    /\ wireOut = DecodePending
    /\ wireOut' = LoadNbtFromBytes(wire.bytes, tag_type_registry)
    /\ UNCHANGED <<wireTag, wireMut, wire, calcVars, arrVars, packVars, regVars, namedVars, snbtVars, eqVars, objVars, modelVars, litVars>>

WireNext == ToBytesCall \/ FromBytesCall \/ LoadNbtCall

SpecCodec == WireInit /\ [][WireNext]_vars

(***************************************************************************)
(* SpecSnbt: a tag is written with to_snbt and the text is read back with  *)
(* from_snbt.                                                              *)
(***************************************************************************)
\* the keys "", "a b", a"b, a\b, the key of one e acute, and two keys of
\* the unquoted alphabet: "a.b-c+_" and "1"
SnbtKeys ==
    {<<>>, <<97, 32, 98>>, <<97, 34, 98>>, <<97, 92, 98>>, StrEAcute,
     <<97, 46, 98, 45, 99, 43, 95>>, <<49>>}

\* strings of a quote, a backslash, a newline, an apostrophe, U+1F600, DEL,
\* U+0001, and "a b"
SnbtStrings ==
    {<<34>>, <<92>>, <<10>>, <<39>>, <<128512>>, <<127>>, <<1>>, <<97, 32, 98>>,
     <<34, 92, 120, 52, 49, 34, 34>>}

SnbtTags ==
    {t \in WireTags : t.kind # "Named"}
        \cup {StringTag(str) : str \in SnbtStrings}
        \cup ListsOver({StringTag(str) : str \in SnbtStrings}, MaxListLen)
        \cup {FloatTag("Double", DblInf), FloatTag("Float", Dbl1e20), FloatTag("Double", Dbl64p5)}
        \cup CompoundsOver(SnbtKeys, {IntTag("Int", 1), StringTag(StrEAcute)}, MaxEntries)
        \cup {ListTag(<<IntTag("Byte", 1), IntTag("Int", 2)>>)}

\* texts of Lists whose elements are of two kinds: [1b,2]  [1,"a"]  {a:[1b,2L]}
MixedListTexts ==
    {<<91, 49, 98, 44, 50, 93>>,
     <<91, 49, 44, 34, 97, 34, 93>>,
     <<123, 97, 58, 91, 49, 98, 44, 50, 76, 93, 125>>}

\* numeric literals: 34B -20b 31415S 7s 31415926 -5 31415926L 2l 3.1415926F 1f
\* 3.1415926 3.2D 1d -1.5D 1.5 -1.5 +1.5 and "1."
NumberTexts ==
    {<<51, 52, 66>>,
     <<45, 50, 48, 98>>,
     <<51, 49, 52, 49, 53, 83>>,
     <<55, 115>>,
     <<51, 49, 52, 49, 53, 57, 50, 54>>,
     <<45, 53>>,
     <<51, 49, 52, 49, 53, 57, 50, 54, 76>>,
     <<50, 108>>,
     <<51, 46, 49, 52, 49, 53, 57, 50, 54, 70>>,
     <<49, 102>>,
     <<51, 46, 49, 52, 49, 53, 57, 50, 54>>,
     <<51, 46, 50, 68>>,
     <<49, 100>>,
     <<45, 49, 46, 53, 68>>,
     <<49, 46, 53>>,
     <<45, 49, 46, 53>>,
     <<43, 49, 46, 53>>,
     <<49, 46>>}

\* texts that are no value: 1]  [1,2  {a:1  "abc  1x  1.5.5  {a:1}}  the empty
\* text  ]  [1,]  abc  "1 2"  [1,2]]  }  [B;1B  --1
MalformedTexts ==
    {<<49, 93>>,
     <<91, 49, 44, 50>>,
     <<123, 97, 58, 49>>,
     <<34, 97, 98, 99>>,
     <<49, 120>>,
     <<49, 46, 53, 46, 53>>,
     <<123, 97, 58, 49, 125, 125>>,
     <<>>,
     <<93>>,
     <<91, 49, 44, 93>>,
     <<97, 98, 99>>,
     <<49, 32, 50>>,
     <<91, 49, 44, 50, 93, 93>>,
     <<125>>,
     <<91, 66, 59, 49, 66>>,
     <<45, 45, 49>>}

\* compounds with the keys they hold as they come: {b:1,a:2}  {a:1,b:2,a:3}
\* {foo:1,"a b":2,a:3}
OrderTexts ==
    {[keys |-> <<StrB, StrA>>, text |-> <<123, 98, 58, 49, 44, 97, 58, 50, 125>>],
     [keys |-> <<StrA, StrB, StrA>>,
      text |-> <<123, 97, 58, 49, 44, 98, 58, 50, 44, 97, 58, 51, 125>>],
     [keys |-> <<StrFoo, <<97, 32, 98>>, StrA>>,
      text |-> <<123, 102, 111, 111, 58, 49, 44, 34, 97, 32, 98, 34, 58, 50, 44, 97, 58, 51, 125>>]}

SnbtTexts == MixedListTexts \cup NumberTexts \cup MalformedTexts \cup {o.text : o \in OrderTexts}

\* a tag is given to to_snbt, or a text is given to from_snbt
SnbtInit ==
    /\ \/ snbtTag \in SnbtTags /\ snbtText = TextPending
       \/ snbtTag = NoTag /\ \E t \in SnbtTexts : snbtText = [err |-> "none", text |-> t]
    /\ snbtOut = ParsePending
    /\ CalcIdle /\ ArrIdle /\ PackIdle /\ RegStartup /\ NamedIdle /\ WireIdle /\ EqIdle /\ ObjIdle /\ ModelIdle /\ LitIdle

ToSnbtCall ==
    /\ snbtTag # NoTag
    /\ snbtText = TextPending
    /\ snbtText' = [err |-> "none", text |-> ToSnbt(snbtTag)]
    /\ UNCHANGED <<snbtTag, snbtOut, calcVars, arrVars, packVars, regVars, namedVars, wireVars, eqVars, objVars, modelVars, litVars>>

FromSnbtCall ==
    /\ snbtText.err = "none"
    /\ snbtOut = ParsePending
    /\ snbtOut' = FromSnbt(snbtText.text)
    /\ UNCHANGED <<snbtTag, snbtText, calcVars, arrVars, packVars, regVars, namedVars, wireVars, eqVars, objVars, modelVars, litVars>>

SnbtNext == ToSnbtCall \/ FromSnbtCall

SpecSnbt == SnbtInit /\ [][SnbtNext]_vars

(***************************************************************************)
(* SpecCompound: the Compounds and Named roots of SpecCodec and the         *)
(* Compounds and texts of SpecSnbt, each through its own calls.             *)
(***************************************************************************)
CompoundInit ==
    \/ WireInit /\ wireTag.kind \in {"Compound", "Named"}
    \/ SnbtInit /\ (snbtTag = NoTag \/ snbtTag.kind = "Compound")

CompoundNext == WireNext \/ SnbtNext

SpecCompound == CompoundInit /\ [][CompoundNext]_vars

(***************************************************************************)
(* Equality of array tags (nbt.py 322-323).  _ArrayTag.__eq__ returns      *)
(* self.asarray() == other: the left operand of the library comparison is  *)
(* the Array of the backing words of self, and the right operand is the    *)
(* other tag itself, not its Array.  bitstring is not pinned by the        *)
(* repository, and what Array.__eq__ does with a right operand that is no  *)
(* Array depends on the bitstring installed, so the comparison is a choice *)
(* over the three behaviours a build can have.                             *)
(***************************************************************************)
\* "equals": Array.__eq__ is the whole-array comparison Array.equals, which
\*     is False for a right operand that is not an Array;
\* "elementwise": Array.__eq__ compares element by element after making an
\*     Array of the left dtype from the items of the right operand, and
\*     returns an Array of bools, which is true in a condition exactly when
\*     it is not empty;
\* "strict": Array.__eq__ compares element by element and raises TypeError
\*     for a right operand that is not an Array
ArrayEqLibs == {"equals", "elementwise", "strict"}

\* Array(dtype, items) of an unsigned dtype of w bytes takes each item v
\* with 0 <= v < 2^(8 w)
FitsWidth(v, w) == v >= 0 /\ (w >= 4 \/ v < 2 ^ (8 * w))

\* _ArrayTag.__eq__(a, b) under the library behaviour lib, with the truth
\* value of the result as assertEqual and if take it
ArrayTagEq(a, b, lib) ==
    LET left == ArrayElems(a)
        items == ArrayElems(b)
    IN  CASE lib = "equals" -> [err |-> "none", truth |-> FALSE]
          [] lib = "strict" -> [err |-> "TypeError", truth |-> FALSE]
          [] OTHER ->
                IF \E i \in DOMAIN items : ~FitsWidth(items[i], FmtBytes(a.kind))
                THEN [err |-> "CreationError", truth |-> FALSE]
                ELSE IF Len(items) # Len(left)
                THEN [err |-> "ValueError", truth |-> FALSE]
                ELSE [err |-> "none", truth |-> Len(left) > 0]

\* the arrays compared
EqArrays ==
    {ArrayTag("ByteArray", <<>>), ArrayTag("ByteArray", <<1>>),
     ArrayTag("ByteArray", <<1, 2>>), ArrayTag("ByteArray", <<1, 3>>),
     ArrayTag("IntArray", <<>>), ArrayTag("IntArray", <<0, 0, 0, 1>>),
     ArrayTag("IntArray", <<0, 0, 0, 1, 0, 0, 0, 2>>),
     ArrayTag("IntArray", <<0, 0, 0, 1, 0, 0, 0, 3>>),
     ArrayTag("IntArray", <<0, 0, 1, 44>>),
     ArrayTag("LongArray", <<0, 0, 0, 0, 0, 0, 0, 1, 0, 0, 0, 0, 0, 0, 0, 2>>)}

EqInit ==
    /\ eqLeft \in EqArrays
    /\ eqRight \in EqArrays
    /\ eqLib \in ArrayEqLibs
    /\ eqRes = EqPending
    /\ CalcIdle /\ ArrIdle /\ PackIdle /\ RegStartup /\ NamedIdle /\ WireIdle /\ SnbtIdle /\ ObjIdle /\ ModelIdle /\ LitIdle

\* left == right
EqCall ==
    /\ eqRes = EqPending
    /\ eqRes' = ArrayTagEq(eqLeft, eqRight, eqLib)
    /\ UNCHANGED <<eqLeft, eqRight, eqLib, calcVars, arrVars, packVars, regVars, namedVars, wireVars, snbtVars, objVars, modelVars, litVars>>

EqNext == EqCall

SpecEq == EqInit /\ [][EqNext]_vars

(***************************************************************************)
(* Host values.  What is no tag is a record with a py field: an int, a     *)
(* float, a str, None, a list, a dict, or a pydantic model instance with   *)
(* its fields in declaration order, each [name, optional, value] where     *)
(* optional says that the annotation of the field is Optional[...].        *)
(***************************************************************************)
PyInt(n) == [py |-> "int", int |-> n]

PyStr(str) == [py |-> "str", str |-> str]

PyNone == [py |-> "None"]

PyList(items) == [py |-> "list", items |-> items]

PyDict(entries) == [py |-> "dict", entries |-> entries]

PyModel(fields) == [py |-> "model", fields |-> fields]

Field(name, optional, value) == [name |-> name, optional |-> optional, value |-> value]

\* isinstance(v, NbtTag)
IsTag(v) == "kind" \in DOMAIN v

IsModel(v) == "py" \in DOMAIN v /\ v.py = "model"

\* isinstance(v, list): a native list or a List tag, which is a list
IsList(v) == IF IsTag(v) THEN v.kind = "List" ELSE v.py = "list"

(***************************************************************************)
(* model_to_compound (nbt.py 496-519) for instances without model_dump_nbt *)
(* and fields without metadata.  The outcome is [err, tag].                *)
(***************************************************************************)
RECURSIVE ModelToCompound(_, _)
RECURSIVE LowerFields(_, _, _)
RECURSIVE LowerItems(_, _, _)
RECURSIVE LowerEntries(_, _, _)

\* as_dict[field] = lowered, then the fields after i
FieldSet(fields, i, as_dict, lowered) ==
    IF lowered.err # "none" THEN lowered
    ELSE LowerFields(fields, i + 1, DictSet(as_dict, fields[i].name, lowered.tag))

\* the loop over the fields of the instance (nbt.py 501-514)
LowerFields(fields, i, as_dict) ==
    IF i > Len(fields) THEN [err |-> "none", tag |-> CompoundTag(as_dict)]
    ELSE IF fields[i].optional /\ fields[i].value = PyNone
    THEN LowerFields(fields, i + 1, as_dict)
    ELSE IF IsModel(fields[i].value)
    THEN FieldSet(fields, i, as_dict, ModelToCompound(fields[i].value, PyNone))
    ELSE IF IsList(fields[i].value)
            /\ Len(fields[i].value.items) > 0 /\ IsModel(fields[i].value.items[1])
    THEN FieldSet(fields, i, as_dict, LowerItems(fields[i].value.items, 1, <<>>))
    ELSE IF IsTag(fields[i].value) /\ fields[i].value.kind \in {"Compound", "Named"}
    THEN FieldSet(fields, i, as_dict, LowerEntries(fields[i].value.entries, 1, <<>>))
    ELSE FieldSet(fields, i, as_dict, [err |-> "none", tag |-> fields[i].value])

ItemAppend(items, i, done, lowered) ==
    IF lowered.err # "none" THEN lowered
    ELSE LowerItems(items, i + 1, Append(done, lowered.tag))

\* List([model_to_compound(x) for x in value]) (nbt.py 510): an item that is
\* neither a model nor iterable as (field, value) pairs raises TypeError
LowerItems(items, i, done) ==
    IF i > Len(items) THEN [err |-> "none", tag |-> ListTag(done)]
    ELSE IF IsModel(items[i]) THEN ItemAppend(items, i, done, ModelToCompound(items[i], PyNone))
    ELSE [err |-> "TypeError", tag |-> NoTag]

EntrySet(entries, i, done, lowered) ==
    IF lowered.err # "none" THEN lowered
    ELSE LowerEntries(entries, i + 1, DictSet(done, entries[i][1], lowered.tag))

\* Compound({k: model_to_compound(v) if isinstance(v, BaseModel) else v ...})
\* (nbt.py 512)
LowerEntries(entries, i, done) ==
    IF i > Len(entries) THEN [err |-> "none", tag |-> CompoundTag(done)]
    ELSE IF IsModel(entries[i][2])
    THEN EntrySet(entries, i, done, ModelToCompound(entries[i][2], PyNone))
    ELSE EntrySet(entries, i, done, [err |-> "none", tag |-> entries[i][2]])

\* Named({name: as_dict}) or Compound(as_dict) (nbt.py 516-519)
Rooted(lowered, name) ==
    IF lowered.err # "none" \/ name = PyNone THEN lowered
    ELSE [err |-> "none", tag |-> NamedTag(name.str, lowered.tag.entries)]

ModelToCompound(instance, name) == Rooted(LowerFields(instance.fields, 1, <<>>), name)

(***************************************************************************)
(* to_obj (nbt.py 108-109, 250-251, 403-409, 445-446, 471-472).            *)
(***************************************************************************)
RECURSIVE ToObj(_)

\* Named.to_obj (nbt.py 471-472): {self.name: dict(self)}, a copy of the
\* content with the values it holds
NamedToObj(tag) == PyDict(<<<<tag.name, PyDict(tag.entries)>>>>)

ToObj(tag) ==
    IF tag.kind \in IntKinds THEN
        IF "big" \in DOMAIN tag THEN [py |-> "int", big |-> tag.big] ELSE PyInt(tag.int)
    ELSE IF tag.kind \in FloatKinds THEN [py |-> "float", ieee |-> tag.ieee]
    ELSE IF tag.kind = "String" THEN PyStr(tag.str)
    ELSE IF tag.kind \in ArrayKinds THEN
        PyList([i \in DOMAIN ArrayElems(tag) |-> PyInt(ArrayElems(tag)[i])])
    ELSE IF tag.kind = "List" THEN
        PyList([i \in DOMAIN tag.items |->
                   IF IsModel(tag.items[i])
                   THEN ToObj(ModelToCompound(tag.items[i], PyNone).tag)
                   ELSE ToObj(tag.items[i])])
    ELSE IF tag.kind = "Compound" THEN
        PyDict([i \in DOMAIN tag.entries |->
                   <<tag.entries[i][1],
                     IF IsTag(tag.entries[i][2]) THEN ToObj(tag.entries[i][2])
                     ELSE tag.entries[i][2]>>])
    ELSE NamedToObj(tag)

(***************************************************************************)
(* SpecObj: to_obj is called on a tag.                                     *)
(***************************************************************************)
\* a record of one tag field, and Lists that hold such records
PosModel == PyModel(<<Field(<<120>>, FALSE, IntTag("Int", 1))>>)

ObjTags ==
    WireTags \cup UnpaddedArrays
        \cup {ListTag(<<PosModel>>), ListTag(<<PosModel, PosModel>>),
              CompoundTag(<<<<StrA, ListTag(<<PosModel>>)>>>>)}

ObjInit ==
    /\ objTag \in ObjTags
    /\ objRes = ObjPending
    /\ CalcIdle /\ ArrIdle /\ PackIdle /\ RegStartup /\ NamedIdle /\ WireIdle /\ SnbtIdle /\ EqIdle
    /\ ModelIdle /\ LitIdle

\* tag.to_obj()
ToObjCall ==
    /\ objRes = ObjPending
    /\ objRes' = [err |-> "none", obj |-> ToObj(objTag)]
    /\ UNCHANGED <<objTag, calcVars, arrVars, packVars, regVars, namedVars, wireVars, snbtVars, eqVars, modelVars, litVars>>

ObjNext == ToObjCall

SpecObj == ObjInit /\ [][ObjNext]_vars

(***************************************************************************)
(* SpecModel: model_to_compound is called on a record.                     *)
(***************************************************************************)
\* the most fields of a record
MaxFields == 2

StrBuzz == <<98, 117, 122, 122>>

\* a record of one field that holds a native str, as Foo(bizz="buzz")
FooModel == PyModel(<<Field(<<98, 105, 122, 122>>, FALSE, PyStr(StrBuzz))>>)

\* what a field holds: a native str or int, a tag, None under Optional and
\* under a plain annotation, a record, lists of records, the empty list, a
\* list of ints, a Compound and a Compound that holds a record
FieldValues ==
    {PyStr(StrBuzz), PyInt(1), StringTag(StrBar), IntTag("Int", 1), PyNone, PosModel,
     PyList(<<PosModel, PosModel>>), PyList(<<>>), PyList(<<PyInt(1)>>),
     PyList(<<PosModel, PyInt(1)>>),
     CompoundTag(<<<<StrFoo, StringTag(StrBar)>>>>), CompoundTag(<<<<StrA, PosModel>>>>),
     ListTag(<<IntTag("Int", 1)>>), ListTag(<<PosModel>>)}

FieldNames == {StrA, StrFoo, StrBar}

FieldChoices ==
    {Field(n, FALSE, v) : n \in FieldNames, v \in FieldValues}
        \cup {Field(n, TRUE, v) : n \in FieldNames, v \in {PyNone, StringTag(StrBar)}}

ModelInstances ==
    {PyModel(f) : f \in {g \in SeqsUpTo(FieldChoices, MaxFields) :
                            \A i, j \in DOMAIN g : g[i].name = g[j].name => i = j}}
        \cup {FooModel}

ModelNames == {PyNone, PyStr(<<>>), PyStr(StrBar)}

ModelInit ==
    /\ modelArg \in [instance : ModelInstances, name : ModelNames]
    /\ modelRes = ModelPending
    /\ CalcIdle /\ ArrIdle /\ PackIdle /\ RegStartup /\ NamedIdle /\ WireIdle /\ SnbtIdle /\ EqIdle
    /\ ObjIdle /\ LitIdle

\* model_to_compound(instance, name)
ModelToCompoundCall ==
    /\ modelRes = ModelPending
    /\ modelRes' = ModelToCompound(modelArg.instance, modelArg.name)
    /\ UNCHANGED <<modelArg, calcVars, arrVars, packVars, regVars, namedVars, wireVars, snbtVars, eqVars, objVars, litVars>>

ModelNext == ModelToCompoundCall

SpecModel == ModelInit /\ [][ModelNext]_vars

(***************************************************************************)
(* The block states of a Litematic region.  A region is the number of      *)
(* states in its palette after from_schematic has put air into it, and the *)
(* palette index of each cell in the order of the cell number              *)
(* i = x + z * width + y * length * width; a region is taken one cell      *)
(* high and one long, so that i = x.                                       *)
(***************************************************************************)
\* the bit length of the elements of a LongArray
LongWidth == 64

\* the BlockStates of from_schematic (litematic.py 238-241): pack_list
\* without a width over the palette index of every cell
FromSchematic(cells) == PackList(LongWidth, cells, 0)

\* the loop of get_block_matrix (litematic.py 63-69) from cell i on:
\* blockstates[i], then the test that it is an index of the palette
RECURSIVE ReadBlockStates(_, _, _, _, _, _)
ReadBlockStates(st, bits, palette, volume, i, cells) ==
    IF i >= volume THEN [err |-> "none", bits |-> bits, cells |-> cells]
    ELSE LET stateidx == GetItem(st, LongWidth, bits, i) IN
         IF stateidx.err # "none" THEN [err |-> stateidx.err, bits |-> bits, cells |-> cells]
         ELSE IF stateidx.val \notin {BitsOf(k) : k \in 0..(palette - 1)}
         THEN [err |-> "ValueError", bits |-> bits, cells |-> cells]
         ELSE ReadBlockStates(st, bits, palette, volume, i + 1, Append(cells, stateidx.val))

\* get_block_matrix (litematic.py 53-78): the width is calcsize of the
\* number of states in the palette
GetBlockMatrix(st, palette, volume) ==
    LET bits == CalcSize([isInt |-> TRUE, vals |-> <<palette>>]) IN
    IF bits.err # "none" THEN [err |-> bits.err, bits |-> 0, cells |-> <<>>]
    ELSE ReadBlockStates(st, bits.size, palette, volume, 0, <<>>)

\* the most states of a palette and the most cells of a region
MaxPalette == 9

MaxVolume == 2

LitRegions ==
    {[palette |-> p, cells |-> c] :
        p \in 1..MaxPalette, c \in SeqsUpTo(0..(MaxPalette - 1), MaxVolume)}

LitInit ==
    /\ litArg \in {r \in LitRegions : r.cells # <<>> /\ \A i \in DOMAIN r.cells : r.cells[i] < r.palette}
    /\ BlockStates = LitPending
    /\ litBlocks = ReadPending
    /\ CalcIdle /\ ArrIdle /\ PackIdle /\ RegStartup /\ NamedIdle /\ WireIdle /\ SnbtIdle /\ EqIdle
    /\ ObjIdle /\ ModelIdle

\* LitematicSchematic.from_schematic
FromSchematicCall ==
    /\ BlockStates = LitPending
    /\ BlockStates' = FromSchematic(litArg.cells)
    /\ UNCHANGED <<litArg, litBlocks, calcVars, arrVars, packVars, regVars, namedVars, wireVars, snbtVars, eqVars, objVars, modelVars>>

\* LitematicRegion.get_block_matrix on the region from_schematic has made
GetBlockMatrixCall ==
    /\ BlockStates.err = "none"
    /\ litBlocks = ReadPending
    /\ litBlocks' = GetBlockMatrix(BlockStates.st, litArg.palette, Len(litArg.cells))
    /\ UNCHANGED <<litArg, BlockStates, calcVars, arrVars, packVars, regVars, namedVars, wireVars, snbtVars, eqVars, objVars, modelVars>>

LitNext == FromSchematicCall \/ GetBlockMatrixCall

SpecLitematic == LitInit /\ [][LitNext]_vars

(***************************************************************************)
(* Claims about calcsize.                                                  *)
(***************************************************************************)
CalcDone == calcRes # NoResult

CalcMaxAbs == MaxOf({Abs(calcArg.vals[i]) : i \in DOMAIN calcArg.vals})

CalcSignBit == IF \E i \in DOMAIN calcArg.vals : calcArg.vals[i] < 0 THEN 1 ELSE 0

\* the least width w >= 2 with m < 2^w
MinWidth(m) == CHOOSE w \in 2..(MaxBits + 1) : m < Pow2(w) /\ \A u \in 2..(w - 1) : m >= Pow2(u)

\* C5: for every non-empty list of integers calcsize returns the minimum bit
\* width w >= 2 able to represent the largest magnitude (max|v| < 2^w and no
\* smaller width >= 2 does), plus one bit if any value is negative.
C5_CalcsizeMinimalWidth ==
    (CalcDone /\ calcArg.vals # <<>>) =>
        /\ calcRes.err = "none"
        /\ calcRes.size = MinWidth(CalcMaxAbs) + CalcSignBit

\* C6: calcsize([3]) = 2, calcsize([-1]) = 3, calcsize([300]) = 9; for every
\* non-empty list of integers calcsize(values) = max(ceil(log2(max|v|)), 2),
\* plus 1 exactly when some value is negative; an int is a one-element list.
C6_CalcsizeFormula ==
    (CalcDone /\ calcArg.vals # <<>>) =>
        /\ calcRes.err = "none"
        /\ calcArg.vals = <<3>> => calcRes.size = 2
        /\ calcArg.vals = <<-1>> => calcRes.size = 3
        /\ calcArg.vals = <<300>> => calcRes.size = 9
        /\ calcRes.size =
             (IF CalcMaxAbs > 4 THEN CeilLog2(CalcMaxAbs) ELSE 2) + CalcSignBit

\* What does hold of calcsize: the formula of C6 whenever some value is
\* nonzero, with a single int treated as a one-element list, and an error
\* when every value is zero.
CalcsizeFormulaWhereDefined ==
    (CalcDone /\ calcArg.vals # <<>>) =>
        IF CalcMaxAbs = 0 THEN calcRes.err = "ValueError"
        ELSE /\ calcRes.err = "none"
             /\ calcRes.size =
                  (IF CalcMaxAbs > 4 THEN CeilLog2(CalcMaxAbs) ELSE 2) + CalcSignBit

CalcsizeWidthTooSmall ==
    CalcDone /\ calcRes.err = "none" /\ CalcMaxAbs >= Pow2(calcRes.size - CalcSignBit)

(***************************************************************************)
(* Claims about virtual-width views.                                       *)
(***************************************************************************)
\* the virtual indices whose whole slot lies inside the storage
SlotIndices(W, V) == {i \in ViewIndices(W, V) : (i + 1) * V <= NumWords * W}

ViewWritten == lastOp.op = "view" /\ lastOp.idx \in SlotIndices(arrW, lastOp.vw)

\* C3: for W in {8, 32, 64}, every V in 2..W, every in-range index i and value
\* v < 2^V: after view[i] = v, view[i] reads v and every view[j], j # i, reads
\* what it read before the write, also when slot i straddles two words.
C3_ViewWriteThenRead ==
    ViewWritten =>
        /\ lastOp.err = "none"
        /\ GetItem(store[BaseSid], arrW, lastOp.vw, lastOp.idx).val = lastOp.value
        /\ \A j \in SlotIndices(arrW, lastOp.vw) \ {lastOp.idx} :
             GetItem(store[BaseSid], arrW, lastOp.vw, j)
               = GetItem(lastOp.before, arrW, lastOp.vw, j)

\* The write is right on 64-bit words and wherever the slot lies in one word.
ViewWriteRightOnLongsAndInsideAWord ==
    (/\ ViewWritten
     /\ \/ arrW = 64
        \/ (lastOp.idx * lastOp.vw) \div arrW = ((lastOp.idx + 1) * lastOp.vw - 1) \div arrW)
    =>  /\ lastOp.err = "none"
        /\ GetItem(store[BaseSid], arrW, lastOp.vw, lastOp.idx).val = lastOp.value
        /\ \A j \in SlotIndices(arrW, lastOp.vw) \ {lastOp.idx} :
             GetItem(store[BaseSid], arrW, lastOp.vw, j)
               = GetItem(lastOp.before, arrW, lastOp.vw, j)

\* A straddling write on 8- and 32-bit words raises after the start word
\* was rewritten.
StraddlingWriteRaises ==
    (/\ ViewWritten
     /\ arrW # 64
     /\ (lastOp.idx * lastOp.vw) \div arrW # ((lastOp.idx + 1) * lastOp.vw - 1) \div arrW)
    => lastOp.err = "ValueError"

\* what the array itself shows of slot i at width V: a second view made of it
OtherViewGetItem(V, i) ==
    LET r == CallView(Base, V, store) IN GetItem(r.heap[r.handle.sid], arrW, V, i)

\* C4: a view made by calling an array shares the array's storage: what was
\* written through the view at index i is read through the array (natively,
\* and through any other view of the same width at index i), and a native
\* write to the array is read through the view.
C4_ViewSharesStorage ==
    view # NoView =>
        /\ \A i \in ViewIndices(arrW, view.vw) :
             GetItem(store[view.sid], arrW, view.vw, i) = OtherViewGetItem(view.vw, i)
        /\ \A k \in 0..(NumWords - 1) :
             NativeGetItem(store[view.sid], k) = NativeGetItem(store[BaseSid], k)
        /\ (lastOp.op = "view" /\ lastOp.err = "none" /\ lastOp.vw = view.vw) =>
             OtherViewGetItem(view.vw, lastOp.idx).val = lastOp.value
        /\ (lastOp.op = "native" /\ lastOp.err = "none") =>
             /\ NativeGetItem(store[view.sid], lastOp.idx).val = lastOp.value
             /\ view.vw = arrW =>
                  GetItem(store[view.sid], arrW, view.vw, lastOp.idx).val = lastOp.value

\* a write through a view changed a slot that straddles two words of a
\* LongArray, and a view of that width is at hand
C4_Witness ==
    /\ arrW = 64
    /\ view # NoView
    /\ lastOp.op = "view" /\ lastOp.err = "none" /\ lastOp.vw = view.vw
    /\ (lastOp.idx * lastOp.vw) \div arrW # ((lastOp.idx + 1) * lastOp.vw - 1) \div arrW
    /\ GetItem(lastOp.before, arrW, lastOp.vw, lastOp.idx).val # lastOp.value

(***************************************************************************)
(* Claims about pack_list.                                                 *)
(***************************************************************************)
PackDone == packRes # PackPending

\* every value fits the width that was asked for
PackValuesFit ==
    packArg.width # 0 =>
        \A i \in DOMAIN packArg.values : packArg.values[i] < Pow2(packArg.width)

\* C7: pack_list(values, width) returns a new array of ceil(len(values)*width/W)
\* backing words in which view(width)[i] reads values[i] for every i; an
\* omitted width is computed as calcsize(values).
C7_PackListReadsBack ==
    (PackDone /\ packArg.values # <<>> /\ PackValuesFit) =>
        /\ packRes.err = "none"
        /\ packArg.width = 0 =>
             packRes.width = CalcSize([isInt |-> FALSE, vals |-> packArg.values]).size
        /\ Len(packRes.st) = CeilDiv(Len(packArg.values) * packRes.width, packArg.W)
        /\ \A i \in DOMAIN packArg.values :
             GetItem(packRes.st, packArg.W, packRes.width, i - 1).val
               = BitsOf(packArg.values[i])

\* What does hold: on a LongArray, with a width that every value fits, each
\* value is read back.
PackListReadsBackOnLongs ==
    (/\ PackDone
     /\ packArg.W = 64
     /\ packArg.width # 0
     /\ PackValuesFit)
    =>  /\ packRes.err = "none"
        /\ Len(packRes.st) = CeilDiv(Len(packArg.values) * packRes.width, packArg.W)
        /\ \A i \in DOMAIN packArg.values :
             GetItem(packRes.st, packArg.W, packRes.width, i - 1).val
               = BitsOf(packArg.values[i])

\* a LongArray packed with an omitted width reads a value back wrong
PackListLosesAValue ==
    /\ PackDone /\ packArg.W = 64 /\ packArg.width = 0 /\ packRes.err = "none"
    /\ \E i \in DOMAIN packArg.values :
         GetItem(packRes.st, packArg.W, packRes.width, i - 1).val
           # BitsOf(packArg.values[i])

(***************************************************************************)
(* Claims about the binary codec.                                          *)
(***************************************************************************)
WireEncoded == wireMut = NoMut /\ wire # WirePending

WireDecoded == wireMut = NoMut /\ wireOut # DecodePending

\* C1: for every tag t of the twelve kinds (and a Named root), to_bytes
\* succeeds and type(t).from_bytes(t.to_bytes()) returns a tag equal to t.
C1_BinaryRoundTrip ==
    /\ WireEncoded => wire.err = "none"
    /\ WireDecoded => wireOut.err = "none" /\ TagEq(wireOut.tag, wireTag)

\* the part of C1 that the code keeps: the round trip of the tags whose
\* strings, keys and names are ASCII and whose Floats are singles
BinaryRoundTripOfAsciiTags ==
    WireDecoded /\ wireTag \in AsciiTags => wireOut.err = "none" /\ TagEq(wireOut.tag, wireTag)

\* a String of one code point above U+007F is encoded and cannot be decoded
StringRoundTripRaises ==
    WireDecoded /\ wireTag = StringTag(StrEAcute) /\ wireOut.err = "UnicodeDecodeError"

\* a longer one is decoded to a prefix of itself
StringRoundTripTruncates ==
    /\ WireDecoded /\ wireTag = StringTag(StrEAcuteA)
    /\ wireOut.err = "none" /\ wireOut.tag = StringTag(StrEAcute)

TamperedDecoded == wireMut.role \in {"list", "entry"} /\ wireOut # DecodePending

\* the byte as Compound.from_buff and List.from_buff read it (intbe8)
MutId == SignedBE(<<wireMut.byte>>)

NestedEntryKindRefused ==
    /\ TamperedDecoded /\ wireMut.byte = 163 /\ wireMut.depth >= 3 /\ wireMut.role = "entry"
    /\ wireOut.err = "ValueError"

\* element kind 0 with elements following: an empty List and no error
ZeroKindListDecodes ==
    /\ TamperedDecoded /\ wireMut.byte = 0 /\ wireMut.role = "list" /\ wireTag.kind = "List"
    /\ wireMut.depth = 1 /\ Len(wireTag.items) > 0
    /\ wireOut.err = "none" /\ wireOut.tag = ListTag(<<>>)

\* the stream 0A 00 00 08 00 03 'foo' 00 03 'bar' 00
NamedFixture == <<10, 0, 0, 8, 0, 3, 102, 111, 111, 0, 3, 98, 97, 114, 0>>

NamedEncoded == WireEncoded /\ wireTag.kind = "Named"

NamedDecoded == WireDecoded /\ wireTag.kind = "Named"

\* C11: Named.to_bytes emits the byte 0x0A, then the name as String.to_bytes
\* writes it, then the Compound encoding of the content (its entries and the
\* end byte, no second discriminator); Named.from_bytes of that stream
\* returns a Named root of the same name and content, and the stream
\* 0A 00 00 08 00 03 'foo' 00 03 'bar' 00 decodes to the root named ''
\* that holds {foo: String('bar')}.
C11_NamedEncoding ==
    /\ NamedEncoded =>
          /\ wire.err = "none"
          /\ wire.bytes = <<10>> \o StringToBytes(wireTag.name).bytes
                            \o ToBytes(CompoundTag(wireTag.entries), tag_type_id).bytes
    /\ NamedDecoded => wireOut.err = "none" /\ wireOut.tag = wireTag
    /\ NamedDecoded /\ wire.bytes = NamedFixture =>
          wireOut.tag = NamedTag(<<>>, <<<<StrFoo, StringTag(StrBar)>>>>)

\* the part of C11 that the code keeps: the layout for every root, and the
\* decoding of the roots whose name and keys are ASCII
NamedEncodingOfAsciiNames ==
    /\ NamedEncoded =>
          /\ wire.err = "none"
          /\ wire.bytes = <<10>> \o StringToBytes(wireTag.name).bytes
                            \o ToBytes(CompoundTag(wireTag.entries), tag_type_id).bytes
    /\ NamedDecoded /\ wireTag \in AsciiTags => wireOut.err = "none" /\ wireOut.tag = wireTag
    /\ NamedDecoded /\ wire.bytes = NamedFixture =>
          wireOut.tag = NamedTag(<<>>, <<<<StrFoo, StringTag(StrBar)>>>>)

\* the fixture is decoded to the root named ''
NamedFixtureDecoded ==
    /\ NamedDecoded /\ wire.bytes = NamedFixture
    /\ wireOut.tag = NamedTag(<<>>, <<<<StrFoo, StringTag(StrBar)>>>>)

\* the root named by one e acute is encoded as 0A 00 01 C3 A9 00 and the
\* stream cannot be decoded
NamedOfNonAsciiNameRaises ==
    /\ NamedDecoded /\ wireTag = NamedTag(StrEAcute, <<>>)
    /\ wire.bytes = <<10, 0, 1, 195, 169, 0>>
    /\ wireOut.err = "UnicodeDecodeError"

\* a List is encoded, and decoded by List.from_bytes or List[T].from_bytes
ListCall == wireTag.kind = "List" /\ wireMut.role \in {"none", "expects"}

RECURSIVE ElementsBytes(_, _)
ElementsBytes(items, ids) ==
    IF items = <<>> THEN <<>>
    ELSE ToBytes(Head(items), ids).bytes \o ElementsBytes(Tail(items), ids)

ElementsEncode(items, ids) == \A i \in DOMAIN items : ToBytes(items[i], ids).err = "none"

EmptyListBytes == <<0, 0, 0, 0, 0>>

\* C12: an empty List is encoded as the kind byte 0 and a 4-byte zero count;
\* a List of n > 0 elements as the discriminator of its first element, the
\* 4-byte count n and the encodings of its elements in order; and the bytes
\* 00 00 00 00 00 decode to the empty List whatever element type the caller
\* asked for.
C12_ListEncoding ==
    ListCall =>
        /\ wire # WirePending /\ wireTag.items = <<>> =>
              wire = [err |-> "none", bytes |-> EmptyListBytes]
        /\ wire # WirePending /\ wireTag.items # <<>>
              /\ ElementsEncode(wireTag.items, tag_type_id) =>
              /\ wire.err = "none"
              /\ wire.bytes = <<TagTypeIdOf(tag_type_id, wireTag.items[1].kind),
                                0, 0, 0, Len(wireTag.items)>>
                                \o ElementsBytes(wireTag.items, tag_type_id)
        /\ wireOut # DecodePending /\ wire.bytes = EmptyListBytes =>
              wireOut = [err |-> "none", tag |-> ListTag(<<>>), pos |-> 5]

\* List[Int].from_bytes of 00 00 00 00 00 returned the empty List
C12_Witness ==
    /\ wireMut.role = "expects" /\ wireMut.byte = 3
    /\ wire.bytes = EmptyListBytes
    /\ wireOut = [err |-> "none", tag |-> ListTag(<<>>), pos |-> 5]

\* a List of two Ints is encoded as 03 00 00 00 02 and the two Ints
ListOfTwoEncoded ==
    /\ ListCall /\ wireTag = ListTag(<<IntTag("Int", 1), IntTag("Int", -2)>>)
    /\ wire.bytes = <<3, 0, 0, 0, 2, 0, 0, 0, 1, 255, 255, 255, 254>>

\* the String encoding of the claim: the number of UTF-8 bytes as a 2-byte
\* big-endian prefix, then the bytes
Utf8Prefixed(str) ==
    LET n == Len(Utf8Encode(str)) IN <<n \div 256, n % 256>> \o Utf8Encode(str)

\* sub lies in bytes right after the first at bytes
LiesAt(sub, bytes, at) ==
    /\ at + Len(sub) <= Len(bytes)
    /\ \A i \in DOMAIN sub : bytes[at + i] = sub[i]

\* C14: String(s).to_bytes() is the number of UTF-8 bytes of s as a 2-byte
\* big-endian unsigned prefix followed by those bytes, also when s has more
\* bytes than code points; the name of a Named root and the key of a
\* Compound entry are written the same way.
C14_StringPrefixCountsBytes ==
    WireEncoded =>
        /\ wireTag.kind = "String" =>
              wire = [err |-> "none", bytes |-> Utf8Prefixed(wireTag.str)]
        /\ wireTag.kind = "Named" =>
              wire.err = "none" /\ LiesAt(Utf8Prefixed(wireTag.name), wire.bytes, 1)
        /\ wireTag.kind = "Compound" /\ wireTag.entries # <<>> /\ wire.err = "none" =>
              LiesAt(Utf8Prefixed(wireTag.entries[1][1]), wire.bytes, 1)

\* the part of C14 that the code keeps: strings, names and keys that have
\* as many bytes as code points
StringPrefixOfAsciiStrings ==
    WireEncoded /\ wireTag \in AsciiTags =>
        /\ wireTag.kind = "String" =>
              wire = [err |-> "none", bytes |-> Utf8Prefixed(wireTag.str)]
        /\ wireTag.kind = "Named" =>
              wire.err = "none" /\ LiesAt(Utf8Prefixed(wireTag.name), wire.bytes, 1)
        /\ wireTag.kind = "Compound" /\ wireTag.entries # <<>> /\ wire.err = "none" =>
              LiesAt(Utf8Prefixed(wireTag.entries[1][1]), wire.bytes, 1)

\* String of one e acute is written 00 01 C3 A9: the prefix is 1, the
\* number of code points, and two bytes follow
StringPrefixCountsCodePoints ==
    /\ WireEncoded /\ wireTag = StringTag(StrEAcute)
    /\ wire.bytes = <<0, 1, 195, 169>>

\* the key of one e acute is written the same way
KeyPrefixCountsCodePoints ==
    /\ WireEncoded /\ wireTag = CompoundTag(<<<<StrEAcute, IntTag("Int", 1)>>>>)
    /\ wire.bytes = <<3, 0, 1, 195, 169, 0, 0, 0, 1, 0>>

\* the value of an integer tag lies in the signed range of its kind
IntValueFits(tag) ==
    LET n == FmtBytes(tag.kind) IN
    IF "big" \in DOMAIN tag THEN Len(BigNorm(tag.big)) <= n
    ELSE n >= 4 \/ (tag.int >= -(2 ^ (8 * n - 1)) /\ tag.int <= 2 ^ (8 * n - 1) - 1)

\* the bytes are the big-endian two's complement of the tag's value
BytesHoldValue(bytes, tag) ==
    IF "big" \in DOMAIN tag THEN BigNorm(bytes) = BigNorm(tag.big)
    ELSE IF Len(bytes) = 8 THEN LongOfBytes(bytes) = tag
    ELSE SignedBE(bytes) = tag.int

HoldsMisfit(tag) ==
    \/ tag.kind = "List" /\ \E i \in DOMAIN tag.items :
          tag.items[i].kind \in IntKinds /\ ~IntValueFits(tag.items[i])
    \/ tag.kind = "Compound" /\ \E i \in DOMAIN tag.entries :
          tag.entries[i][2].kind \in IntKinds /\ ~IntValueFits(tag.entries[i][2])

\* C15: to_bytes of a Byte, Short, Int or Long whose value is outside the
\* signed range of 8, 16, 32 or 64 bits raises and emits no bytes, also when
\* the tag is an element of a List or a value of a Compound; a value in
\* range is emitted as exactly 1, 2, 4 or 8 big-endian bytes that hold it.
C15_IntegerEncodingChecksRange ==
    WireEncoded =>
        /\ wireTag.kind \in IntKinds /\ IntValueFits(wireTag) =>
              /\ wire.err = "none"
              /\ Len(wire.bytes) = FmtBytes(wireTag.kind)
              /\ BytesHoldValue(wire.bytes, wireTag)
        /\ wireTag.kind \in IntKinds /\ ~IntValueFits(wireTag) =>
              wire.err # "none" /\ wire.bytes = <<>>
        /\ HoldsMisfit(wireTag) => wire.err # "none" /\ wire.bytes = <<>>

\* Byte(300).to_bytes() raised
C15_Witness ==
    /\ WireEncoded /\ wireTag = IntTag("Byte", 300)
    /\ wire = [err |-> "CreationError", bytes |-> <<>>]

\* Int(2^31) and Long(2^63) are refused, Short(-32768) is written as 80 00
WideMisfitsRefused ==
    /\ WireEncoded
    /\ \/ wireTag = BigTag("Int", <<0, 128, 0, 0, 0>>) /\ wire.err = "CreationError"
       \/ wireTag = BigTag("Long", <<0, 128, 0, 0, 0, 0, 0, 0, 0>>) /\ wire.err = "CreationError"

ShortMinEncoded ==
    WireEncoded /\ wireTag = IntTag("Short", -32768) /\ wire.bytes = <<128, 0>>

ArrayEncoded == WireEncoded /\ wireTag.kind \in ArrayKinds

\* C16: an array is encoded as a 4-byte unsigned count of backing words
\* followed by the buffer; a buffer that is no whole number of words gets
\* zeros in front of its trailing part only, so that the complete words
\* before it are emitted as they are and the whole is a multiple of W.
C16_ArrayEncodingPadsTrailingWord ==
    ArrayEncoded =>
        LET w == FmtBytes(wireTag.kind)
            st == wireTag.storage
            full == Len(st) \div w
            rest == Len(st) % w
            count == IF rest = 0 THEN full ELSE full + 1
        IN  /\ wire.err = "none"
            /\ Len(wire.bytes) = 4 + count * w
            /\ SubSeq(wire.bytes, 1, 4) = <<0, 0, 0, count>>
            /\ \A i \in 1..(full * w) : wire.bytes[4 + i] = st[i]
            /\ rest > 0 =>
                  /\ \A i \in 1..(w - rest) : wire.bytes[4 + full * w + i] = 0
                  /\ \A i \in 1..rest : wire.bytes[4 + count * w - rest + i] = st[full * w + i]

\* the part of C16 that the code keeps: the count and the length always,
\* and the bytes when the buffer has no complete word before its trailing
\* part or no trailing part
ArrayEncodingOfWholeWords ==
    ArrayEncoded =>
        LET w == FmtBytes(wireTag.kind)
            st == wireTag.storage
            full == Len(st) \div w
            rest == Len(st) % w
            count == IF rest = 0 THEN full ELSE full + 1
        IN  /\ wire.err = "none"
            /\ Len(wire.bytes) = 4 + count * w
            /\ SubSeq(wire.bytes, 1, 4) = <<0, 0, 0, count>>
            /\ rest = 0 => SubSeqFrom(wire.bytes, 4, Len(st)) = st
            /\ full = 0 /\ rest > 0 =>
                  wire.bytes = <<0, 0, 0, 1>> \o [i \in 1..(w - rest) |-> 0] \o st

\* IntArray over the five bytes 00 00 00 01 02 reads element 0 as 1 and is
\* encoded as the two elements 0 and 258
FrontPaddingShiftsElements ==
    /\ ArrayEncoded /\ wireTag = ArrayTag("IntArray", <<0, 0, 0, 1, 2>>)
    /\ ArrayElems(wireTag) = <<1>>
    /\ wire.bytes = <<0, 0, 0, 2, 0, 0, 0, 0, 0, 0, 1, 2>>

\* List([Byte(1), Int(2)]) is encoded under the discriminator of Byte and
\* decoded as two Bytes
MixedListMisencoded ==
    /\ WireDecoded /\ wireTag = ListTag(<<IntTag("Byte", 1), IntTag("Int", 2)>>)
    /\ wire.bytes = <<1, 0, 0, 0, 2, 1, 0, 0, 0, 2>>
    /\ wireOut.tag = ListTag(<<IntTag("Byte", 1), IntTag("Byte", 0)>>)

(***************************************************************************)
(* Claims about the registry.                                              *)
(***************************************************************************)
RegCalled == regCall # NoRegCall

\* C8: register_tag_type(id, kind) on an id already bound fails unless
\* overwrite is requested; a failed registration (duplicate id, or a kind that
\* is no tag type) leaves the registry and every kind's discriminator as they
\* were; with overwrite requested the id is rebound to the new kind.
C8_RegisterDuplicateFails ==
    RegCalled =>
        /\ (regCall.id \in DOMAIN regCall.reg /\ ~regCall.overwrite) =>
             regCall.err # "none"
        /\ regCall.kind \notin TagKinds => regCall.err # "none"
        /\ regCall.err # "none" =>
             /\ tag_type_registry = regCall.reg
             /\ tag_type_id = regCall.ids
        /\ (regCall.overwrite /\ regCall.kind \in TagKinds) =>
             /\ regCall.err = "none"
             /\ regCall.id \in DOMAIN tag_type_registry
             /\ tag_type_registry[regCall.id] = regCall.kind

\* register_tag_type(1, Int) was refused: 1 is bound to Byte and stays so
C8_Witness ==
    /\ regCall.id = 1 /\ regCall.kind = "Int" /\ ~regCall.overwrite
    /\ regCall.err = "KeyError"
    /\ tag_type_registry[1] = "Byte"

(***************************************************************************)
(* Claims about the Named root.                                            *)
(***************************************************************************)
NamedDone == namedRes # NamedPending

NamedMergedKeys == DictKeys(namedArg.initialdata) \cup DictKeys(namedArg.kwargs)

\* C10: a Named root binds exactly one name to one Compound: a mapping whose
\* number of keys, after the keyword arguments are merged in, is not one is
\* refused, and every Named root that is built has that one key as its name.
C10_NamedHasOneKey ==
    NamedDone =>
        /\ Cardinality(NamedMergedKeys) # 1 => namedRes.err # "none"
        /\ namedRes.err = "none" =>
             /\ NamedMergedKeys = {namedRes.name}
             /\ namedRes.content =
                  (IF namedArg.kwargs # <<>> THEN namedArg.kwargs[1][2]
                   ELSE namedArg.initialdata[1][2]).entries

\* a second key came in as a keyword argument and the root was refused
C10_Witness ==
    /\ NamedDone
    /\ Len(namedArg.initialdata) = 1 /\ Len(namedArg.kwargs) = 1
    /\ Cardinality(NamedMergedKeys) = 2
    /\ namedRes.err = "ValueError"

(***************************************************************************)
(* Claims about SNBT.                                                      *)
(***************************************************************************)
SnbtParsed == snbtTag # NoTag /\ snbtOut # ParsePending

\* from_snbt has returned or raised on a text given to it
TextParsed == snbtTag = NoTag /\ snbtOut # ParsePending

\* C2: for every tag value t, from_snbt(to_snbt(t)) returns a tag equal to t.
C2_SnbtRoundTrip == SnbtParsed => snbtOut.err = "none" /\ TagEq(snbtOut.tag, snbtTag)

\* the keys that to_snbt writes in a form from_snbt reads back: not empty,
\* and no quote, backslash or character outside space..~
RECURSIVE KeysReadBack(_)
KeysReadBack(t) ==
    IF t.kind = "List" THEN \A i \in DOMAIN t.items : KeysReadBack(t.items[i])
    ELSE IF t.kind = "Compound" THEN
        \A i \in DOMAIN t.entries :
            /\ t.entries[i][1] # <<>>
            /\ \A k \in DOMAIN t.entries[i][1] :
                  t.entries[i][1][k] \in (32..126) \ {34, 92}
            /\ KeysReadBack(t.entries[i][2])
    ELSE TRUE

\* the part of C2 that the code keeps: every tag with such keys and no
\* infinite Float or Double goes through the text unchanged
SnbtRoundTripOfPlainKeys ==
    SnbtParsed /\ KeysReadBack(snbtTag) /\ snbtTag \notin {FloatTag("Double", DblInf)}
        => snbtOut.err = "none" /\ TagEq(snbtOut.tag, snbtTag)

\* the empty key is written bare and the text does not parse
EmptyKeyDoesNotParse ==
    /\ SnbtParsed /\ snbtTag = CompoundTag(<<<<<<>>, IntTag("Int", 1)>>>>)
    /\ snbtText.text = <<123, 58, 49, 125>>
    /\ snbtOut.err = "ParseException"

\* a key with a quote is written with json.dumps and read back with its
\* backslash
QuotedKeyKeepsItsEscape ==
    /\ SnbtParsed /\ snbtTag = CompoundTag(<<<<<<97, 34, 98>>, IntTag("Int", 1)>>>>)
    /\ snbtOut.err = "none"
    /\ snbtOut.tag = CompoundTag(<<<<<<97, 92, 34, 98>>, IntTag("Int", 1)>>>>)

\* to_snbt was given a Compound of one entry and from_snbt its text
OneKeyParsed ==
    /\ SnbtParsed
    /\ snbtTag.kind = "Compound"
    /\ Len(snbtTag.entries) = 1

\* the form in which a key is to be written: bare when all of its characters
\* are alphanumerics or _ - . +, quoted otherwise
KeyForm(k) == IF \A i \in DOMAIN k : k[i] \in KeyAlphabet THEN k ELSE JsonDumps(k)

\* C21: to_snbt writes a compound key unquoted when all of its characters
\* are in the unquoted-token alphabet and quoted otherwise, and from_snbt
\* reads the written form back as exactly that key (keys with quotes,
\* backslashes, non-ASCII characters and the empty key included).
C21_KeysReadBackExactly ==
    OneKeyParsed =>
        LET k == snbtTag.entries[1][1] IN
        /\ SubSeq(snbtText.text, 1, 1 + Len(KeyForm(k)) + 1) = <<123>> \o KeyForm(k) \o <<58>>
        /\ snbtOut.err = "none"
        /\ snbtOut.tag.kind = "Compound"
        /\ Len(snbtOut.tag.entries) = 1
        /\ snbtOut.tag.entries[1][1] = k

\* a key that is not empty and has no quote, backslash or character outside
\* space..~
PlainKey(k) == k # <<>> /\ \A i \in DOMAIN k : k[i] \in (32..126) \ {34, 92}

\* the part of C21 that the code keeps: the written form is as claimed for
\* every key, and plain keys, quoted or not, are read back exactly
PlainKeysReadBackExactly ==
    OneKeyParsed =>
        LET k == snbtTag.entries[1][1] IN
        /\ SubSeq(snbtText.text, 1, 1 + Len(KeyForm(k)) + 1) = <<123>> \o KeyForm(k) \o <<58>>
        /\ PlainKey(k) =>
              /\ snbtOut.err = "none"
              /\ snbtOut.tag.kind = "Compound"
              /\ Len(snbtOut.tag.entries) = 1
              /\ snbtOut.tag.entries[1][1] = k

\* a plain key with a character outside the alphabet was written quoted and
\* read back
QuotedPlainKeyReadBack ==
    /\ OneKeyParsed /\ PlainKey(snbtTag.entries[1][1])
    /\ \E i \in DOMAIN snbtTag.entries[1][1] : snbtTag.entries[1][1][i] \notin KeyAlphabet
    /\ snbtText.text[2] = 34
    /\ snbtOut.err = "none"
    /\ snbtOut.tag.entries[1][1] = snbtTag.entries[1][1]

\* the key of one e acute is written "é" and read back as the six
\* characters é
NonAsciiKeyKeepsItsEscape ==
    /\ OneKeyParsed /\ snbtTag.entries[1][1] = <<233>>
    /\ snbtOut.err = "none"
    /\ snbtOut.tag.entries[1][1] = <<92, 117, 48, 48, 101, 57>>

RECURSIVE Homogeneous(_)
Homogeneous(t) ==
    IF t.kind = "List" THEN
        /\ \A i, j \in DOMAIN t.items : TagTypeIdOf(tag_type_id, t.items[i].kind)
                                          = TagTypeIdOf(tag_type_id, t.items[j].kind)
        /\ \A i \in DOMAIN t.items : Homogeneous(t.items[i])
    ELSE IF t.kind \in {"Compound", "Named"} THEN
        \A i \in DOMAIN t.entries : Homogeneous(t.entries[i][2])
    ELSE TRUE

\* C13: a List whose elements do not share one discriminator is refused when
\* it is built, also by from_snbt: every tag that from_snbt returns holds
\* homogeneous Lists only, and a text of a mixed List makes it raise.
C13_ListsAreHomogeneous ==
    /\ snbtOut # ParsePending /\ snbtOut.err = "none" => Homogeneous(snbtOut.tag)
    /\ TextParsed /\ snbtText.text \in MixedListTexts => snbtOut.err # "none"

\* from_snbt('[1b,2]') returns List([Byte(1), Int(2)])
MixedListBuilt ==
    /\ TextParsed /\ snbtText.text = <<91, 49, 98, 44, 50, 93>>
    /\ snbtOut.err = "none"
    /\ snbtOut.tag = ListTag(<<IntTag("Byte", 1), IntTag("Int", 2)>>)


NumberParsed == TextParsed /\ snbtText.text \in NumberTexts

\* the kind that the form of a numeric literal selects
SuffixKinds ==
    (66 :> "Byte") @@ (98 :> "Byte") @@ (83 :> "Short") @@ (115 :> "Short")
        @@ (76 :> "Long") @@ (108 :> "Long") @@ (70 :> "Float") @@ (102 :> "Float")
        @@ (68 :> "Double") @@ (100 :> "Double")

KindOfForm(text) ==
    IF text[Len(text)] \in DOMAIN SuffixKinds THEN SuffixKinds[text[Len(text)]]
    ELSE IF HasPoint(text) THEN "Double"
    ELSE "Int"

\* C18: from_snbt takes the kind of a numeric literal from its form: suffix
\* B, S, L, F or D in either case gives Byte, Short, Long, Float or Double,
\* a bare signed integer gives Int, and every literal with a decimal point
\* and no suffix, positive or negative, gives Double.
C18_NumberKindFromForm ==
    NumberParsed =>
        /\ snbtOut.err = "none"
        /\ snbtOut.tag.kind = KindOfForm(snbtText.text)

\* a literal with a decimal point and no suffix that has a sign or no digit
\* after the point
SignedOrOpenDecimal(text) ==
    /\ HasPoint(text)
    /\ text[Len(text)] \notin DOMAIN SuffixKinds
    /\ text[1] \in {43, 45} \/ text[Len(text)] = 46

\* the part of C18 that the code keeps: every suffixed literal, every bare
\* integer and every unsigned digits.digits literal
NumberKindOfUnsignedDecimals ==
    NumberParsed /\ ~SignedOrOpenDecimal(snbtText.text) =>
        /\ snbtOut.err = "none"
        /\ snbtOut.tag.kind = KindOfForm(snbtText.text)

\* from_snbt("-1.5") returns Int(-1)
NegativeDecimalParsedAsInt ==
    /\ TextParsed /\ snbtText.text = <<45, 49, 46, 53>>
    /\ snbtOut.err = "none"
    /\ snbtOut.tag = IntTag("Int", -1)

\* from_snbt("-1.5D") returns Double(-1.5)
SuffixedNegativeDecimalParsed ==
    /\ TextParsed /\ snbtText.text = <<45, 49, 46, 53, 68>>
    /\ snbtOut.err = "none"
    /\ snbtOut.tag = FloatTag("Double", DblNeg1p5)

\* C19: from_snbt on malformed text (unbalanced brackets, an unterminated
\* string, a malformed number, text left over after a complete value) raises
\* a parse error and returns no tag; a tag it returns is never built from
\* only a prefix of the text.
C19_MalformedTextRaises ==
    TextParsed =>
        /\ snbtText.text \in MalformedTexts =>
              snbtOut.err = "ParseException" /\ snbtOut.tag = NoTag
        /\ snbtOut.err = "none" => snbtOut.pos = Len(snbtText.text) + 1

\* the malformed texts of which a prefix is a complete value:
\* 1]  1x  1.5.5  {a:1}}  "1 2"  [1,2]]
ValuePrefixed ==
    {<<49, 93>>, <<49, 120>>, <<49, 46, 53, 46, 53>>,
     <<123, 97, 58, 49, 125, 125>>, <<49, 32, 50>>, <<91, 49, 44, 50, 93, 93>>}

\* the part of C19 that the code keeps: a malformed text that does not start
\* with a complete value raises the parse error and gives no tag
MalformedFromTheStartRaises ==
    TextParsed /\ snbtText.text \in MalformedTexts \ ValuePrefixed =>
        snbtOut.err = "ParseException" /\ snbtOut.tag = NoTag

\* from_snbt("1]") returns Int(1), built from the first character (the
\* parser stops at position 2 of the text)
PrefixAccepted ==
    /\ TextParsed /\ snbtText.text = <<49, 93>>
    /\ snbtOut.err = "none"
    /\ snbtOut.tag = IntTag("Int", 1)
    /\ snbtOut.pos = 2

\* from_snbt("[1,2") raises
UnclosedListRaises ==
    /\ TextParsed /\ snbtText.text = <<91, 49, 44, 50>>
    /\ snbtOut.err = "ParseException"

NumberRendered ==
    /\ snbtTag # NoTag
    /\ snbtTag.kind \in IntKinds \cup FloatKinds
    /\ snbtText # TextPending

\* str(v.to_obj()) of a numeric tag
NumberLiteral(t) == IF t.kind \in IntKinds THEN IntStr(t.int) ELSE FloatRepr(t.ieee)

SuffixOfKind == [Byte |-> <<66>>, Short |-> <<83>>, Int |-> <<>>, Long |-> <<76>>,
                 Float |-> <<70>>, Double |-> <<68>>]

\* C20 as stated: to_snbt renders a numeric tag as its literal and a suffix:
\* B for Byte, S for Short, L for Long, F for Float, none for Int, and for
\* Double none when the literal has a decimal point and D otherwise.
C20_DoubleSuffixOnlyWithoutPoint ==
    NumberRendered =>
        /\ snbtText.err = "none"
        /\ snbtText.text =
              IF snbtTag.kind = "Double" /\ HasPoint(NumberLiteral(snbtTag))
              THEN NumberLiteral(snbtTag)
              ELSE NumberLiteral(snbtTag) \o SuffixOfKind[snbtTag.kind]

\* C20 as the code has it: to_snbt renders a numeric tag as its literal and
\* a suffix: B for Byte, S for Short, L for Long, F for Float, none for Int,
\* and D for every Double, with or without a decimal point in its literal.
C20_DoubleAlwaysSuffixed ==
    NumberRendered =>
        /\ snbtText.err = "none"
        /\ snbtText.text = NumberLiteral(snbtTag) \o SuffixOfKind[snbtTag.kind]

\* a Double whose literal has a decimal point has been rendered with D
C20_Witness ==
    /\ NumberRendered /\ snbtTag.kind = "Double"
    /\ HasPoint(NumberLiteral(snbtTag))
    /\ snbtText.text[Len(snbtText.text)] = 68

\* to_snbt(Double(3.2)) is "3.2D"
DoublePointRenderedWithD ==
    /\ NumberRendered /\ snbtTag = FloatTag("Double", Dbl3p2)
    /\ snbtText.text = <<51, 46, 50, 68>>

(***************************************************************************)
(* Claims about the equality of array tags.                                *)
(***************************************************************************)
Compared == eqRes # EqPending

\* C17: two arrays are equal exactly when their decoded integer sequences
\* are equal, whatever their backing widths: equal sequences compare equal,
\* and sequences that differ in an element or in length compare unequal.
C17_ArrayEqualityByValues ==
    Compared =>
        /\ eqRes.err = "none"
        /\ eqRes.truth = (ArrayElems(eqLeft) = ArrayElems(eqRight))

\* no behaviour of the library makes C17 true: under each there is a pair
\* of arrays that the comparison gets wrong
EqualArraysUnequal ==
    /\ Compared /\ eqLib = "equals"
    /\ eqLeft = ArrayTag("IntArray", <<0, 0, 0, 1>>) /\ eqRight = eqLeft
    /\ eqRes = [err |-> "none", truth |-> FALSE]

DifferentArraysEqual ==
    /\ Compared /\ eqLib = "elementwise"
    /\ eqLeft = ArrayTag("ByteArray", <<1, 2>>) /\ eqRight = ArrayTag("ByteArray", <<1, 3>>)
    /\ eqRes = [err |-> "none", truth |-> TRUE]

EmptyArraysUnequal ==
    /\ Compared /\ eqLib = "elementwise"
    /\ eqLeft = ArrayTag("IntArray", <<>>) /\ eqRight = eqLeft
    /\ eqRes = [err |-> "none", truth |-> FALSE]

ComparisonRaises ==
    /\ Compared /\ eqLib = "strict"
    /\ eqRes.err = "TypeError"

\* under every behaviour of the library some comparison is wrong
WrongUnderEveryLib ==
    \A lib \in ArrayEqLibs :
        \E a \in EqArrays, b \in EqArrays :
            LET r == ArrayTagEq(a, b, lib)
            IN  r.err # "none" \/ r.truth # (ArrayElems(a) = ArrayElems(b))

(***************************************************************************)
(* Claims about load_nbt_from_bytes.                                       *)
(***************************************************************************)
\* root.to_bytes(compress) has been called before load_nbt_from_bytes
RootWritten == wireMut.role = "load" /\ wireTag # ClassOf("Named") /\ wire # WirePending

\* load_nbt_from_bytes has returned or raised on that stream
RootLoaded == RootWritten /\ wireOut # DecodePending

HasMagic(b) == Len(b) >= 2 /\ SubSeq(b, 1, 2) = GzipMagic

\* C23: load_nbt_from_bytes decompresses exactly the streams that begin with
\* 1F 8B, so load_nbt_from_bytes(r.to_bytes(compress)) equals r for every
\* Named root r, with compress True and with compress False.
C23_LoadUndoesToBytes ==
    /\ RootWritten => wire.err = "none" /\ (HasMagic(wire.bytes) <=> wireMut.byte = 1)
    /\ RootLoaded => wireOut.err = "none" /\ TagEq(wireOut.tag, wireTag)

\* the part of C23 that the code keeps: the magic is at the front of the
\* compressed streams only, and the roots whose name, keys and strings are
\* ASCII are loaded back, compressed or not
LoadUndoesToBytesOfAsciiRoots ==
    /\ RootWritten => wire.err = "none" /\ (HasMagic(wire.bytes) <=> wireMut.byte = 1)
    /\ RootLoaded /\ wireTag \in AsciiTags => wireOut.err = "none" /\ TagEq(wireOut.tag, wireTag)

\* a compressed root has been loaded back
CompressedRootLoaded ==
    /\ RootLoaded /\ wireMut.byte = 1 /\ wireTag.entries # <<>>
    /\ HasMagic(wire.bytes)
    /\ wireOut.err = "none" /\ TagEq(wireOut.tag, wireTag)

\* the root named by one e acute, compressed, is not loaded back
CompressedNonAsciiRootRaises ==
    /\ RootLoaded /\ wireMut.byte = 1 /\ wireTag = NamedTag(StrEAcute, <<>>)
    /\ wireOut.err = "UnicodeDecodeError"

\* a stream of 1F 8B and no gzip member after it is refused by gzip
MagicAloneRefused ==
    /\ wireMut.role = "load" /\ wireTag = ClassOf("Named")
    /\ wire.bytes = GzipMagic \o <<10, 0, 0, 0>>
    /\ wireOut.err = "BadGzipFile"

(***************************************************************************)
(* Claims about the order of the entries of a Compound.                    *)
(***************************************************************************)
\* the keys of a dict as iteration gives them
KeySeq(d) == [i \in DOMAIN d |-> d[i][1]]

\* the distinct members of a sequence in the order of their first coming
RECURSIVE FirstComings(_, _)
FirstComings(seq, seen) ==
    IF seq = <<>> THEN seen
    ELSE IF \E i \in DOMAIN seen : seen[i] = Head(seq) THEN FirstComings(Tail(seq), seen)
    ELSE FirstComings(Tail(seq), Append(seen, Head(seq)))

\* the kind byte, key and value of each entry, one entry after the other
RECURSIVE EntriesBytes(_, _)
EntriesBytes(entries, ids) ==
    IF entries = <<>> THEN <<>>
    ELSE <<TagTypeIdOf(ids, entries[1][2].kind)>> \o StringToBytes(entries[1][1]).bytes
            \o ToBytes(entries[1][2], ids).bytes \o EntriesBytes(Tail(entries), ids)

CompoundEncoded == WireEncoded /\ wireTag.kind = "Compound" /\ wire.err = "none"

CompoundDecoded ==
    /\ wireMut.role \in {"none", "raw"}
    /\ wireTag.kind \in {"Compound", "Named"}
    /\ wireOut # DecodePending /\ wireOut.err = "none"

CompoundParsed ==
    /\ snbtOut # ParsePending /\ snbtOut.err = "none"
    /\ snbtOut.tag.kind = "Compound"

\* C22: the entries of a Compound are visited in insertion order by
\* to_bytes, never sorted; the keys of a Compound are unique; and a Compound
\* decoded from bytes or parsed from SNBT has its entries in the order in
\* which their keys first come in the input.
C22_CompoundKeepsInsertionOrder ==
    /\ CompoundEncoded =>
          wire.bytes = EntriesBytes(wireTag.entries, tag_type_id) \o <<0>>
    /\ CompoundDecoded =>
          /\ IsDict(wireOut.tag.entries)
          /\ wireMut.role = "none" /\ wireTag.kind = "Compound" =>
                KeySeq(wireOut.tag.entries) = KeySeq(wireTag.entries)
          /\ wireMut.role = "raw" =>
                KeySeq(wireOut.tag.entries)
                    = FirstComings((CHOOSE r \in RawStreams : r.bytes = wire.bytes).keys, <<>>)
    /\ CompoundParsed =>
          /\ IsDict(snbtOut.tag.entries)
          /\ snbtTag # NoTag /\ (\A i \in DOMAIN snbtTag.entries : PlainKey(snbtTag.entries[i][1])) =>
                KeySeq(snbtOut.tag.entries) = KeySeq(snbtTag.entries)
          /\ snbtTag = NoTag /\ (\E o \in OrderTexts : o.text = snbtText.text) =>
                KeySeq(snbtOut.tag.entries)
                    = FirstComings((CHOOSE o \in OrderTexts : o.text = snbtText.text).keys, <<>>)

\* a Compound of the keys foo, a in this order has been encoded and decoded
\* with foo first
C22_Witness ==
    /\ CompoundDecoded /\ wireMut.role = "none" /\ wireTag.kind = "Compound"
    /\ KeySeq(wireTag.entries) = <<StrFoo, StrA>>
    /\ SubSeq(wire.bytes, 2, 6) = <<0, 3>> \o StrFoo
    /\ KeySeq(wireOut.tag.entries) = <<StrFoo, StrA>>

\* the stream of {a: 1, b: 2, a: 3} decodes to {a: 3, b: 2}
RepeatedKeyKeepsItsPlace ==
    /\ CompoundDecoded /\ wireMut.role = "raw"
    /\ wireOut.tag = CompoundTag(<<<<StrA, IntTag("Int", 3)>>, <<StrB, IntTag("Int", 2)>>>>)

\* the text {b:1,a:2} parses to a Compound of b, then a
ParsedInTextOrder ==
    /\ CompoundParsed /\ snbtText.text = <<123, 98, 58, 49, 44, 97, 58, 50, 125>>
    /\ KeySeq(snbtOut.tag.entries) = <<StrB, StrA>>



(***************************************************************************)
(* Claims about to_obj.                                                    *)
(***************************************************************************)
RECURSIVE HasTag(_)
\* a tag instance is somewhere in a host value
HasTag(v) ==
    \/ IsTag(v)
    \/ v.py = "list" /\ \E i \in DOMAIN v.items : HasTag(v.items[i])
    \/ v.py = "dict" /\ \E i \in DOMAIN v.entries : HasTag(v.entries[i][2])

RECURSIVE HoldsFilledNamed(_)
\* a Named root with content is the tag or is somewhere in it
HoldsFilledNamed(v) ==
    /\ IsTag(v)
    /\ \/ v.kind = "Named" /\ v.entries # <<>>
       \/ v.kind = "List" /\ \E i \in DOMAIN v.items : HoldsFilledNamed(v.items[i])
       \/ v.kind = "Compound" /\ \E i \in DOMAIN v.entries : HoldsFilledNamed(v.entries[i][2])

ObjReturned == objRes.err = "none"

\* C24: to_obj() on any tag tree, a Named root included, returns host values
\* only: no tag instance remains anywhere in the result.
C24_ToObjLeavesNoTag == ObjReturned => ~HasTag(objRes.obj)

\* to_obj() of a tree that holds no Named root with content leaves no tag.
ToObjOfListsAndCompounds ==
    (ObjReturned /\ ~HoldsFilledNamed(objTag)) => ~HasTag(objRes.obj)

\* a nested tree with a packed array was lowered to lists and dicts of ints
NestedTreeLowered ==
    /\ ObjReturned
    /\ objTag.kind = "Compound"
    /\ \E i \in DOMAIN objTag.entries : objTag.entries[i][2].kind \in {"List", "Compound"}
    /\ ~HasTag(objRes.obj)

\* the dict of a Named root holds the tags of the root
NamedRootKeepsItsTags ==
    /\ ObjReturned
    /\ objTag.kind = "Named"
    /\ \E i \in DOMAIN objTag.entries : objRes.obj.entries[1][2].entries[i][2] = objTag.entries[i][2]

(***************************************************************************)
(* Claims about model_to_compound.                                         *)
(***************************************************************************)
RECURSIVE AllTags(_)
\* the value is a tag and so is every value it holds
AllTags(v) ==
    /\ IsTag(v)
    /\ v.kind = "List" => \A i \in DOMAIN v.items : AllTags(v.items[i])
    /\ v.kind \in {"Compound", "Named"} => \A i \in DOMAIN v.entries : AllTags(v.entries[i][2])

RECURSIVE TagTyped(_)
\* every field of the record, and of the records it holds, has a tag, a
\* record, a filled list of records or an absent Optional as its value
TagTyped(instance) ==
    \A i \in DOMAIN instance.fields :
        LET f == instance.fields[i] IN
            \/ f.optional /\ f.value = PyNone
            \/ IsModel(f.value) /\ TagTyped(f.value)
            \/ /\ IsList(f.value) /\ Len(f.value.items) > 0
               /\ \A j \in DOMAIN f.value.items :
                     IsModel(f.value.items[j]) /\ TagTyped(f.value.items[j])
            \/ /\ IsTag(f.value) /\ f.value.kind = "Compound"
               /\ \A j \in DOMAIN f.value.entries :
                     \/ AllTags(f.value.entries[j][2])
                     \/ IsModel(f.value.entries[j][2]) /\ TagTyped(f.value.entries[j][2])
            \/ AllTags(f.value)

\* the names of the fields that are no absent Optional, in their order
KeptNames(fields) ==
    LET kept == SelectSeq(fields, LAMBDA f : ~(f.optional /\ f.value = PyNone))
    IN  [i \in DOMAIN kept |-> kept[i].name]

Lowered == modelRes.err = "none"

\* the shape of the result: a Compound, or a Named root of the name given,
\* with one entry for each field that is no absent Optional
LoweredShape ==
    /\ modelRes.tag.kind = (IF modelArg.name = PyNone THEN "Compound" ELSE "Named")
    /\ modelArg.name # PyNone => modelRes.tag.name = modelArg.name.str
    /\ [i \in DOMAIN modelRes.tag.entries |-> modelRes.tag.entries[i][1]]
           = KeptNames(modelArg.instance.fields)

\* C25: model_to_compound lowers a record to a Compound: an absent Optional
\* is left out, records become Compounds, sequences of records Lists, tags
\* pass through and scalars are wrapped, so every value of the result is a
\* tag; with a name the result is a Named root of that name.
C25_ModelLoweredToTags == Lowered => (LoweredShape /\ AllTags(modelRes.tag))

\* The shape is as stated for every record, and every value of the result is
\* a tag when the fields of the record hold tags, records and filled lists of
\* records.
ModelOfTagFieldsLowered ==
    Lowered => /\ LoweredShape
               /\ TagTyped(modelArg.instance) => AllTags(modelRes.tag)

\* a field that holds a native str is an entry that holds that str
ScalarLeftRaw ==
    /\ Lowered
    /\ modelArg.instance = FooModel
    /\ modelRes.tag.entries[1][2] = PyStr(StrBuzz)

\* a field that holds the empty list is an entry that holds that list
EmptyListLeftRaw ==
    /\ Lowered
    /\ \E i \in DOMAIN modelRes.tag.entries : modelRes.tag.entries[i][2] = PyList(<<>>)

\* records, a list of records and an absent Optional were lowered under a name
RecordsLoweredUnderName ==
    /\ Lowered
    /\ modelRes.tag.kind = "Named"
    /\ Len(modelArg.instance.fields) = 2
    /\ Len(modelRes.tag.entries) = 1
    /\ AllTags(modelRes.tag)
    /\ modelRes.tag.entries[1][2].kind = "List"

(***************************************************************************)
(* Claims about streams that end early.                                    *)
(***************************************************************************)
RECURSIVE HoldsCompound(_)
\* a Compound or Named root is the tag or is somewhere in it
HoldsCompound(tag) ==
    \/ tag.kind \in {"Compound", "Named"}
    \/ tag.kind = "List" /\ \E i \in DOMAIN tag.items : HoldsCompound(tag.items[i])

\* from_bytes has returned or raised on a stream that is the first
\* wireMut.at bytes, and not all, of to_bytes of wireTag
CutDecoded == wireMut.role = "cut" /\ wireOut # DecodePending

\* C26: decoding a stream that ends before the tag is complete, at any
\* depth, fails with an end-of-stream error; no partial tree is returned.
C26_TruncatedStreamFails == CutDecoded => wireOut.err = "ReadError"

\* A stream of a tag that holds no Compound fails with the end-of-stream
\* error wherever it is cut.
TruncatedStreamWithoutCompoundFails ==
    (CutDecoded /\ ~HoldsCompound(wireTag)) => wireOut.err = "ReadError"

\* a List of Strings cut inside its second item raises
CutInsideStringRaises ==
    /\ CutDecoded
    /\ wireTag = ListTag(<<StringTag(StrA), StringTag(StrFoo)>>)
    /\ wireMut.at = 10
    /\ wireOut.err = "ReadError"

\* a List of two Compounds cut after the entry of the first is returned as
\* a List of that entry and an empty Compound
CutListOfCompoundsReturned ==
    /\ CutDecoded
    /\ wireTag = ListTag(<<CompoundTag(<<<<StrFoo, StringTag(StrBar)>>>>),
                          CompoundTag(<<<<StrFoo, StringTag(StrBar)>>>>)>>)
    /\ wireMut.at = 17
    /\ wireOut.err = "none"
    /\ wireOut.tag = ListTag(<<CompoundTag(<<<<StrFoo, StringTag(StrBar)>>>>), CompoundTag(<<>>)>>)

\* a Compound cut after its first entry is returned with that entry alone
CutCompoundReturned ==
    /\ CutDecoded
    /\ wireTag.kind = "Compound"
    /\ Len(wireTag.entries) = 2
    /\ wireOut.err = "none"
    /\ Len(wireOut.tag.entries) = 1

(***************************************************************************)
(* Claims about the end of a Compound in a stream.                         *)
(***************************************************************************)
\* the stream is to_bytes of wireTag without its last byte
CutBeforeLastByte == wireMut.at = EncLen(wireTag, tag_type_id) - 1

\* C27: Compound decoding reads entries until the end sentinel or the end of
\* the stream at an entry boundary; after the sentinel the cursor stands on
\* the byte that follows it, so the Compound or List around it goes on from
\* there: a tree with Compounds is read whole and the cursor ends at the end
\* of the stream, behind the sentinel of a Compound root; a Compound root
\* whose stream lacks only the sentinel is read whole as well.
C27_CompoundEndsAtSentinelOrEnd ==
    /\ (WireDecoded /\ wireTag \in AsciiTags /\ HoldsCompound(wireTag)) =>
           /\ wireOut.err = "none"
           /\ TagEq(wireOut.tag, wireTag)
           /\ wireOut.pos = Len(wire.bytes)
           /\ wireTag.kind = "Compound" => wire.bytes[wireOut.pos] = 0
    /\ (CutDecoded /\ wireTag.kind = "Compound" /\ CutBeforeLastByte) =>
           /\ wireOut.err = "none"
           /\ wireOut.tag = wireTag
           /\ wireOut.pos = wireMut.at

\* a Compound whose first entry is a Compound and whose second entry holds
\* Compounds two deep was read whole
C27_Witness ==
    /\ WireDecoded
    /\ wireTag = CompoundTag(<<<<<<>>, CompoundTag(<<<<StrFoo, StringTag(StrBar)>>>>)>>,
                               <<StrA, CompoundTag(<<<<StrA, CompoundTag(<<>>)>>>>)>>>>)
    /\ wireOut.err = "none"
    /\ wireOut.tag = wireTag
    /\ wireOut.pos = Len(wire.bytes)

\* a Compound root was read from a stream that ends where its sentinel
\* would be
CompoundEndedByEndOfStream ==
    /\ CutDecoded /\ CutBeforeLastByte
    /\ wireTag = CompoundTag(<<<<StrFoo, StringTag(StrBar)>>, <<StrA, IntTag("Int", 1)>>>>)
    /\ wireOut.err = "none"
    /\ wireOut.tag = wireTag

(***************************************************************************)
(* Claims about the progress of the decode loops.                          *)
(***************************************************************************)
\* from_bytes has returned a List
ListDecoded == wireOut.err = "none" /\ wireOut.tag.kind = "List"

\* the bytes read after the header of the List: its element kind and count
ItemBytes == wireOut.pos - 5

\* C28: every iteration of the Compound and List decode loops consumes
\* input, ends the loop or fails, so decoding ends with a tag or an error
\* after no more iterations than the stream has bytes: a List that is
\* returned has no more items than bytes were read for them.
C28_EveryIterationConsumes == ListDecoded => Len(wireOut.tag.items) <= ItemBytes

\* A List of another element kind than Compound has no more items than
\* bytes were read for them.
ItemsOfOtherKindsConsume ==
    (ListDecoded /\ wire.bytes[1] # tag_type_id["Compound"]) =>
        Len(wireOut.tag.items) <= ItemBytes

\* a List read whole from to_bytes, Lists of Compounds among them, has no
\* more items than bytes were read for them
WholeListsConsume ==
    (ListDecoded /\ WireDecoded) => Len(wireOut.tag.items) <= ItemBytes

\* the five bytes of a header of six Compounds are read as six Compounds
HeaderAloneMakesCompounds ==
    /\ wire.bytes = <<10, 0, 0, 0, 6>>
    /\ ListDecoded
    /\ Len(wireOut.tag.items) = 6
    /\ \A i \in 1..6 : wireOut.tag.items[i] = CompoundTag(<<>>)
    /\ wireOut.pos = 5

\* a List of Strings was read with its items behind the header
ListOfStringsConsumed ==
    /\ ListDecoded /\ WireDecoded
    /\ wireTag = ListTag(<<StringTag(StrA)>>)
    /\ ItemBytes = 3

(***************************************************************************)
(* Claims about the registry and the discriminators of the kinds.          *)
(***************************************************************************)
\* the registry binds exactly the ids 1..12 to the built-in kinds
BuiltinsBound ==
    /\ DOMAIN tag_type_registry = 1..12
    /\ \A k \in DOMAIN BuiltinKinds : tag_type_registry[BuiltinIds[k]] = BuiltinKinds[k]

\* each bound id maps to a kind whose own tag_type_id is that id
IdsAgree ==
    \A id \in DOMAIN tag_type_registry : tag_type_id[tag_type_registry[id]] = id

\* C29: at start-up the registry binds exactly the ids 1..12 to the twelve
\* built-in kinds, and in every state reached by register_tag_type calls,
\* with or without overwrite, each bound id maps to a kind whose own
\* tag_type_id equals that id.
C29_RegistryAgreesWithIds ==
    /\ nRegs = 0 => BuiltinsBound
    /\ IdsAgree

\* At start-up the ids 1..12 are bound to the built-in kinds and agree with
\* their tag_type_id; after a registration that succeeds, the id registered
\* maps to the kind registered and that kind's tag_type_id is that id.
RegistryAgreesOnRegisteredId ==
    /\ nRegs = 0 => (BuiltinsBound /\ IdsAgree)
    /\ (RegCalled /\ regCall.err = "none") =>
           /\ tag_type_registry[regCall.id] = regCall.kind
           /\ tag_type_id[regCall.kind] = regCall.id

\* register_tag_type(13, Byte) has bound 13 to Byte; 1 is still bound to
\* Byte, whose tag_type_id is now 13
SecondIdOrphansFirst ==
    /\ regCall.id = 13 /\ regCall.kind = "Byte" /\ ~regCall.overwrite /\ regCall.err = "none"
    /\ nRegs = 1
    /\ tag_type_registry[1] = "Byte" /\ tag_type_registry[13] = "Byte"
    /\ tag_type_id["Byte"] = 13

\* register_tag_type(1, Int, overwrite=True) has rebound 1 to Int; 3 is still
\* bound to Int, whose tag_type_id is now 1, and Byte, bound to no id, keeps
\* the tag_type_id 1
OverwriteOrphansId ==
    /\ regCall.id = 1 /\ regCall.kind = "Int" /\ regCall.overwrite /\ regCall.err = "none"
    /\ nRegs = 1
    /\ tag_type_registry[3] = "Int" /\ tag_type_id["Int"] = 1
    /\ tag_type_id["Byte"] = 1

(***************************************************************************)
(* Claims about the width of the block states of a Litematic region.       *)
(***************************************************************************)
Packed == BlockStates.err = "none"

BlocksRead == litBlocks # ReadPending

\* the width get_block_matrix reads with
ReadWidth == CalcSize([isInt |-> TRUE, vals |-> <<litArg.palette>>]).size

\* the cells were read back as the palette indices they were packed from
CellsReadBack ==
    /\ litBlocks.err = "none"
    /\ litBlocks.cells = [i \in DOMAIN litArg.cells |-> BitsOf(litArg.cells[i])]

\* C30: for every palette size the width with which from_schematic packs
\* BlockStates equals the width with which get_block_matrix reads them, so
\* every cell index written is read back as the same palette index.
C30_PackAndReadWidthsAgree ==
    /\ BlockStates # LitPending => (Packed /\ BlockStates.width = ReadWidth)
    /\ BlocksRead => CellsReadBack

\* For palettes of up to four states both widths are 2 and every cell is
\* read back, when a cell holds another index than 0.
WidthsAgreeUpToFourStates ==
    (litArg.palette <= 4 /\ \E i \in DOMAIN litArg.cells : litArg.cells[i] # 0) =>
        /\ BlockStates # LitPending => (Packed /\ BlockStates.width = 2 /\ ReadWidth = 2)
        /\ BlocksRead => CellsReadBack

\* a palette of five states whose last is in use is packed with 2 bits and
\* read with 3
FiveStatesPackedNarrower ==
    /\ litArg.palette = 5 /\ litArg.cells = <<4>>
    /\ Packed /\ BlockStates.width = 2
    /\ BlocksRead /\ litBlocks.bits = 3
    /\ ~CellsReadBack

\* cells 1 and 3 of a palette of five states are read as one index that is
\* no index of the palette
ReadRaisesOnFiveStates ==
    /\ litArg.palette = 5 /\ litArg.cells = <<1, 3>>
    /\ BlocksRead /\ litBlocks.err = "ValueError"

\* a region of air alone cannot be packed
AirAloneRaises ==
    /\ litArg.cells = <<0, 0>>
    /\ BlockStates.err = "ValueError"

\* a region of three states was packed and read back
ThreeStatesReadBack ==
    /\ litArg.palette = 3 /\ litArg.cells = <<2, 1>>
    /\ BlocksRead /\ CellsReadBack
====
